---- MODULE Spec2Model ----
(***************************************************************************)
(* Model of velum's event dispatch engine (velum/impl/event_manager_base)  *)
(* and of its gateway connection manager (velum/impl/gateway).             *)
(***************************************************************************)
EXTENDS Integers, Sequences, FiniteSets, TLC

(***************************************************************************)
(* Bounds of the model.                                                    *)
(***************************************************************************)
\* subscribe() calls made by the environment
MaxSubs == 2
\* dispatch() calls made by the environment while listeners are observed
MaxDispatch == 1
\* dispatch() calls made by the environment while waiters are observed
MaxWaitDispatch == 2
\* wait_for() calls made by the environment
MaxWaiters == 2
\* connection attempts made by the supervised loop of the gateway
MaxAttempts == 2
\* PING frames sent by the heartbeat tasks
MaxPings == 2
\* frames with an event name that has no consumer, sent by the server
MaxUnknown == 1
\* draws from one ExponentialBackoff
MaxDraws == 9
\* event classes created after the base class
MaxClasses == 4
\* send_close() calls on one transport
MaxCloseCalls == 4
MaxRaw == 2

(***************************************************************************)
(* Event model: velum/events.                                              *)
(***************************************************************************)
EventTypes ==
  {"Event", "ExceptionEvent", "HelloEvent", "MessageEvent", "MessageCreateEvent",
   "ConnectionEvent", "DisconnectEvent", "AuthenticatedEvent"}

\* The event types the environment listens and waits for in the engine's
\* own specifications.
ListenTypes == {"Event", "ExceptionEvent", "HelloEvent", "MessageEvent", "MessageCreateEvent"}

Classes == EventTypes \cup {"ABC", "object"}

\* The (single) base class of every class of the model.
Base ==
  [c \in Classes |->
     CASE c = "object" -> "object"
       [] c = "ABC" -> "object"
       [] c = "Event" -> "ABC"
       [] c = "ExceptionEvent" -> "Event"
       [] c = "HelloEvent" -> "Event"
       [] c = "MessageEvent" -> "Event"
       [] c = "ConnectionEvent" -> "Event"
       [] c = "DisconnectEvent" -> "Event"
       [] c = "AuthenticatedEvent" -> "Event"
       [] c = "MessageCreateEvent" -> "MessageEvent"]

\* cls.mro(): the class, then the mro of its base, ending with object.
RECURSIVE mro(_)
mro(cls) == IF cls = "object" THEN <<"object">> ELSE <<cls>> \o mro(Base[cls])

\* issubclass(sub, sup)
issubclass(sub, sup) == \E i \in 1..Len(mro(sub)) : mro(sub)[i] = sup

IsEventClass(c) == issubclass(c, "Event")

dispatches_self_only(cls) == <<cls>>

\* cls.dispatches = tuple(sub_cls for sub_cls in cls.mro() if issubclass(sub_cls, Event))
dispatches(cls) == SelectSeq(mro(cls), IsEventClass)

\* Order in which the event classes are created: Event itself has bit 1,
\* every later class gets 1 << _id_counter.
RegOrder ==
  <<"ExceptionEvent", "ConnectionEvent", "DisconnectEvent", "HelloEvent",
    "AuthenticatedEvent", "MessageEvent", "MessageCreateEvent">>

RECURSIVE Pow2(_)
Pow2(n) == IF n = 0 THEN 1 ELSE 2 * Pow2(n - 1)

bitmask(cls) ==
  IF cls = "Event" THEN 1
  ELSE Pow2(CHOOSE i \in 1..Len(RegOrder) : RegOrder[i] = cls)

\* a & b on Python's unbounded non-negative integers
RECURSIVE BitAnd(_, _)
BitAnd(a, b) ==
  IF a = 0 \/ b = 0 THEN 0
  ELSE 2 * BitAnd(a \div 2, b \div 2) + (IF a % 2 = 1 /\ b % 2 = 1 THEN 1 ELSE 0)

\* a | b
RECURSIVE BitOr(_, _)
BitOr(a, b) ==
  IF a = 0 THEN b
  ELSE IF b = 0 THEN a
  ELSE 2 * BitOr(a \div 2, b \div 2) + (IF a % 2 = 1 \/ b % 2 = 1 THEN 1 ELSE 0)

RECURSIVE OrBits(_)
OrBits(seq) == IF seq = <<>> THEN 0 ELSE BitOr(bitmask(Head(seq)), OrBits(Tail(seq)))

\* is_consumer_for(event_type): the OR of the bits of event_type.dispatches
is_consumer_for(event_type) == OrBits(dispatches(event_type))

\* The consumers found by EventManagerBase.__init__ on the EventManager.
ConsumerNames == {"message_create", "hello", "authenticated"}

events_bitmask ==
  [c \in ConsumerNames |->
     CASE c = "message_create" -> is_consumer_for("MessageCreateEvent")
       [] c = "hello" -> is_consumer_for("HelloEvent")
       [] c = "authenticated" -> is_consumer_for("AuthenticatedEvent")]

(***************************************************************************)
(* State of the dispatch engine.                                           *)
(***************************************************************************)
Callbacks == {"cb1", "cb2"}
Vals == {0, 1}
Predicates == {"none", "is_one", "raises_on_zero"}

VARIABLES
  listeners,             \* _listeners: event type -> list of callbacks
  waiters,               \* _waiters: event type -> set of waiter pairs
  listener_group_count,  \* Consumer.listener_group_count
  waiter_group_count,    \* Consumer.waiter_group_count
  events,                \* every event handed to dispatch(), in order
  calls,                 \* every _invoke_callback coroutine created by dispatch()
  wt,                    \* the wait_for() calls: position, waiter pair, future
  nsubs,                 \* subscribe() calls made so far
  gw,                    \* the GatewayHandler's fields
  ka,                    \* the keep-alive task: position, pending error, lifetime_tasks
  hb,                    \* the heartbeat task spawned by each connection attempt
  pl,                    \* the poll task spawned by each connection attempt
  tr,                    \* the transport opened by each attempt, and its server
  backoff,               \* ExponentialBackoff.increment
  attempts,              \* connection attempts started so far
  consumptions,          \* _handle_consumption tasks not yet run
  spc,                   \* the caller of start()
  cpc,                   \* the caller of close()
  hist,                  \* what has happened: cancellation requested, PINGs sent
  second,                \* the callers of a second start() and a second close()
  eb,                    \* an ExponentialBackoff object and its draws
  id_counter,            \* base_events._id_counter
  event_classes,         \* the event classes created so far: bitmask, attrs data
  sock,                  \* a GatewayWebsocket and the callers of its send_close
  peer                   \* a second EventManager: its listener and waiter maps

emvars == <<listeners, waiters, listener_group_count, waiter_group_count,
            events, calls, wt, nsubs>>

gwvars == <<gw, ka, hb, pl, tr, backoff, attempts, consumptions, spc, cpc, hist,
            second>>

libvars == <<eb, id_counter, event_classes, sock, peer>>

vars == <<emvars, gwvars, libvars>>

(***************************************************************************)
(* Helpers of the dispatch engine.                                         *)
(***************************************************************************)
\* self._listeners.get(cls, ())
GetListeners(cls) == IF cls \in DOMAIN listeners THEN listeners[cls] ELSE <<>>

\* (consumer.events_bitmask & event_bitmask) == event_bitmask
CanProduce(c, event_type) ==
  BitAnd(events_bitmask[c], bitmask(event_type)) = bitmask(event_type)

increment_listener_group_count_all(counts, event_type, count) ==
  [c \in ConsumerNames |-> counts[c] + count]

\* _increment_listener_group_count, as a function of the counts it updates
increment_listener_group_count(counts, event_type, count) ==
  [c \in ConsumerNames |->
     IF CanProduce(c, event_type) THEN counts[c] + count ELSE counts[c]]

\* _increment_waiter_group_count, as a function of the counts it updates
increment_waiter_group_count(counts, event_type, count) ==
  [c \in ConsumerNames |->
     IF CanProduce(c, event_type) THEN counts[c] + count ELSE counts[c]]

is_enabled_listeners_only(c) == listener_group_count[c] > 0

\* Consumer.is_enabled
is_enabled(c) == listener_group_count[c] > 0 \/ waiter_group_count[c] > 0

is_exception_event_never(event) == FALSE

is_exception_event_always(event) == TRUE

\* _is_exception_event: isinstance(event, ExceptionEvent)
is_exception_event(event) == issubclass(event.type, "ExceptionEvent")

PredEval_raise_rejects(p, event) ==
  CASE p = "none" -> "accept"
    [] p = "is_one" -> IF event.val = 1 THEN "accept" ELSE "reject"
    [] p = "raises_on_zero" -> IF event.val = 0 THEN "reject" ELSE "accept"

\* What a waiter's predicate does with an event: "accept" (absent predicate
\* or true), "reject" (false) or "raise".
PredEval(p, event) ==
  CASE p = "none" -> "accept"
    [] p = "is_one" -> IF event.val = 1 THEN "accept" ELSE "reject"
    [] p = "raises_on_zero" -> IF event.val = 0 THEN "raise" ELSE "accept"

\* The _invoke_callback coroutines dispatch() creates for one class of the
\* dispatch set, in the order of the class's listener list.
CallsOfClass(evid, cls) ==
  [pos \in 1..Len(GetListeners(cls)) |->
     [ev |-> evid, cls |-> cls, pos |-> pos, cb |-> GetListeners(cls)[pos],
      st |-> "created", out |-> "none", child |-> 0]]

RECURSIVE CallsOf(_, _)
CallsOf(evid, clss) ==
  IF clss = <<>> THEN <<>>
  ELSE CallsOfClass(evid, Head(clss)) \o CallsOf(evid, Tail(clss))

SeqToSet(seq) == {seq[i] : i \in 1..Len(seq)}

Staying_nobody(cls, event) == {}

\* The waiters of cls that stay in their set when event is dispatched: the
\* pending ones whose predicate rejects the event.
Staying(cls, event) ==
  {w \in waiters[cls] : wt[w].fut = "pending" /\ PredEval(wt[w].pred, event) = "reject"}

\* The classes of the dispatch set whose waiter set is emptied and deleted.
Emptied(clss, event) ==
  {cls \in SeqToSet(clss) \cap DOMAIN waiters : Staying(cls, event) = {}}

RECURSIVE DecrementEmptied(_, _, _)
DecrementEmptied(counts, clss, event) ==
  IF clss = <<>> THEN counts
  ELSE DecrementEmptied(
         IF Head(clss) \in Emptied(<<Head(clss)>>, event)
         THEN increment_waiter_group_count(counts, Head(clss), -1)
         ELSE counts,
         Tail(clss), event)

\* The list of classes whose listeners and waiters dispatch() visits.
DispatchClasses(event) == dispatches(event.type)

\* The waiter part of dispatch(): lines 303-322.
DispatchWaiters(evid, event) ==
  LET clss == DispatchClasses(event)
      visited == SeqToSet(clss) \cap DOMAIN waiters
      gone == Emptied(clss, event)
      removed == UNION {waiters[cls] \ Staying(cls, event) : cls \in visited}
  IN /\ waiters' = [cls \in DOMAIN waiters \ gone |->
                      IF cls \in visited THEN Staying(cls, event) ELSE waiters[cls]]
     /\ waiter_group_count' = DecrementEmptied(waiter_group_count, clss, event)
     /\ wt' = [w \in DOMAIN wt |->
                 IF w \in removed /\ wt[w].fut = "pending"
                 THEN IF PredEval(wt[w].pred, event) = "raise"
                      THEN [wt[w] EXCEPT !.fut = "exception", !.res = evid]
                      ELSE [wt[w] EXCEPT !.fut = "result", !.res = evid]
                 ELSE wt[w]]

\* dispatch(event): the coroutines for the listeners, then the waiters.
\* `before` is the list of calls as the caller leaves it.
DispatchEffect(event, before) ==
  LET evid == Len(events) + 1
  IN /\ events' = Append(events, event)
     /\ calls' = before \o CallsOf(evid, DispatchClasses(event))
     /\ DispatchWaiters(evid, event)

HandleDone_at_once(cs, evid) == TRUE

\* The handle dispatch() returned for event evid is complete: gather() of
\* its coroutines, or create_completed_future() when there are none.
HandleDone(cs, evid) == \A c \in 1..Len(cs) : cs[c].ev = evid => cs[c].st = "done"

UserEvents == {i \in 1..Len(events) : events[i].by = "user"}

(***************************************************************************)
(* Operations of the dispatch engine.                                      *)
(***************************************************************************)
\* self._listeners after subscribe(event_type, callback)
subscribed(ls, event_type, callback) ==
  IF event_type \in DOMAIN ls
  THEN [ls EXCEPT ![event_type] = Append(@, callback)]
  ELSE (event_type :> <<callback>>) @@ ls

\* the listener group counts after subscribe(event_type, callback)
subscribed_counts(ls, counts, event_type) ==
  IF event_type \in DOMAIN ls
  THEN counts
  ELSE increment_listener_group_count(counts, event_type, 1)

\* subscribe(event_type, callback)
subscribe(event_type, callback) ==
  /\ nsubs < MaxSubs
  /\ nsubs' = nsubs + 1
  /\ listeners' = subscribed(listeners, event_type, callback)
  /\ listener_group_count' = subscribed_counts(listeners, listener_group_count, event_type)
  /\ UNCHANGED <<waiters, waiter_group_count, events, calls, wt>>

\* list.remove(x): drops the first occurrence
RemoveFirst(seq, x) ==
  LET i == CHOOSE j \in 1..Len(seq) : seq[j] = x /\ \A k \in 1..(j - 1) : seq[k] /= x
  IN SubSeq(seq, 1, i - 1) \o SubSeq(seq, i + 1, Len(seq))

\* unsubscribe() gets as far as its removal and the removal finds the
\* callback: otherwise it returns early, or list.remove raises ValueError,
\* and nothing has changed.
CanUnsubscribe(ls, event_type, callback) ==
  /\ event_type \in DOMAIN ls
  /\ callback \in SeqToSet(ls[event_type])

\* self._listeners after unsubscribe(event_type, callback)
unsubscribed(ls, event_type, callback) ==
  IF ~CanUnsubscribe(ls, event_type, callback) THEN ls
  ELSE IF RemoveFirst(ls[event_type], callback) = <<>>
  THEN [t \in DOMAIN ls \ {event_type} |-> ls[t]]
  ELSE [ls EXCEPT ![event_type] = RemoveFirst(ls[event_type], callback)]

\* the listener group counts after unsubscribe(event_type, callback)
unsubscribed_counts(ls, counts, event_type, callback) ==
  IF CanUnsubscribe(ls, event_type, callback)
     /\ RemoveFirst(ls[event_type], callback) = <<>>
  THEN increment_listener_group_count(counts, event_type, -1)
  ELSE counts

\* unsubscribe(event_type, callback), when it changes something
unsubscribe(event_type, callback) ==
  /\ CanUnsubscribe(listeners, event_type, callback)
  /\ listeners' = unsubscribed(listeners, event_type, callback)
  /\ listener_group_count' =
       unsubscribed_counts(listeners, listener_group_count, event_type, callback)
  /\ UNCHANGED <<waiters, waiter_group_count, events, calls, wt, nsubs>>

\* dispatch(event), called by the environment (a consumer or user code)
dispatch(type, val) ==
  /\ DispatchEffect([type |-> type, val |-> val, by |-> "user",
                     failed_event |-> 0, failed_callback |-> "none", exception |-> 0],
                    calls)
  /\ UNCHANGED <<listeners, listener_group_count, nsubs>>

\* _invoke_callback(callback, event), up to the end of the callback:
\* the callback returns, or raises and the error is logged or wrapped into
\* an ExceptionEvent that is dispatched and awaited.
invoke_callback(c, raises) ==
  /\ c \in 1..Len(calls)
  /\ calls[c].st = "created"
  /\ LET event == events[calls[c].ev]
     IN IF ~raises
        THEN /\ calls' = [calls EXCEPT ![c].st = "done", ![c].out = "ok"]
             /\ UNCHANGED <<events, waiters, waiter_group_count, wt>>
        ELSE IF is_exception_event(event)
        THEN /\ calls' = [calls EXCEPT ![c].st = "done", ![c].out = "raised"]
             /\ UNCHANGED <<events, waiters, waiter_group_count, wt>>
        ELSE LET exception_event ==
                   [type |-> "ExceptionEvent", val |-> event.val, by |-> "engine",
                    failed_event |-> calls[c].ev, failed_callback |-> calls[c].cb,
                    exception |-> c]
             IN DispatchEffect(exception_event,
                               [calls EXCEPT ![c].st = "awaiting", ![c].out = "raised",
                                             ![c].child = Len(events) + 1])
  /\ UNCHANGED <<listeners, listener_group_count, nsubs>>

\* _invoke_callback resumes from `await self.dispatch(exception_event)`
invoke_callback_resume(c) ==
  /\ c \in 1..Len(calls)
  /\ calls[c].st = "awaiting"
  /\ HandleDone(calls, calls[c].child)
  /\ calls' = [calls EXCEPT ![c].st = "done"]
  /\ UNCHANGED <<listeners, waiters, listener_group_count, waiter_group_count,
                 events, wt, nsubs>>

\* wait_for(event_type, timeout=..., predicate=...) up to its await
wait_for(w, event_type, timeout, predicate) ==
  /\ wt[w].pc = "idle"
  /\ \A v \in 1..(w - 1) : wt[v].pc /= "idle"
  /\ IF event_type \in DOMAIN waiters
     THEN /\ waiters' = [waiters EXCEPT ![event_type] = @ \cup {w}]
          /\ UNCHANGED waiter_group_count
     ELSE /\ waiters' = (event_type :> {w}) @@ waiters
          /\ waiter_group_count' =
               increment_waiter_group_count(waiter_group_count, event_type, 1)
  /\ wt' = [wt EXCEPT ![w] = [pc |-> "waiting", type |-> event_type, pred |-> predicate,
                               timeout |-> timeout, fut |-> "pending", res |-> 0,
                               reg |-> Len(events)]]
  /\ UNCHANGED <<listeners, listener_group_count, events, calls, nsubs>>

\* asyncio.wait_for reaches the deadline with the future still pending: it
\* cancels the future; the coroutine of wait_for resumes in a later step.
wait_for_deadline(w) ==
  /\ wt[w].pc = "waiting"
  /\ wt[w].timeout
  /\ wt[w].fut = "pending"
  /\ wt' = [wt EXCEPT ![w].fut = "cancelled", ![w].pc = "expired"]
  /\ UNCHANGED <<listeners, waiters, listener_group_count, waiter_group_count,
                 events, calls, nsubs>>

\* wait_for's `except asyncio.TimeoutError` clause: waiter_set.remove(pair)
\* raises KeyError when the pair is no longer in the set.
wait_for_timeout(w) ==
  /\ wt[w].pc = "expired"
  /\ LET t == wt[w].type
     IN IF t \in DOMAIN waiters /\ w \in waiters[t]
        THEN /\ wt' = [wt EXCEPT ![w].pc = "timeout_error"]
             /\ IF waiters[t] = {w}
                THEN /\ waiters' = [u \in DOMAIN waiters \ {t} |-> waiters[u]]
                     /\ waiter_group_count' =
                          increment_waiter_group_count(waiter_group_count, t, -1)
                ELSE /\ waiters' = [waiters EXCEPT ![t] = @ \ {w}]
                     /\ UNCHANGED waiter_group_count
        ELSE /\ wt' = [wt EXCEPT ![w].pc = "key_error"]
             /\ UNCHANGED <<waiters, waiter_group_count>>
  /\ UNCHANGED <<listeners, listener_group_count, events, calls, nsubs>>

\* wait_for returns the future's result or raises its exception
wait_for_return(w) ==
  /\ wt[w].pc = "waiting"
  /\ wt[w].fut \in {"result", "exception"}
  /\ wt' = [wt EXCEPT ![w].pc = IF wt[w].fut = "result" THEN "returned" ELSE "raised"]
  /\ UNCHANGED <<listeners, waiters, listener_group_count, waiter_group_count,
                 events, calls, nsubs>>

\* The task that awaits wait_for is cancelled by its caller: the future is
\* cancelled with it and the CancelledError passes through wait_for, whose
\* only except clause is the one for asyncio.TimeoutError.
wait_for_cancelled(w) ==
  /\ wt[w].pc = "waiting"
  /\ wt[w].fut = "pending"
  /\ wt' = [wt EXCEPT ![w].fut = "cancelled", ![w].pc = "cancelled_error"]
  /\ UNCHANGED <<listeners, waiters, listener_group_count, waiter_group_count,
                 events, calls, nsubs>>

(***************************************************************************)
(* Gateway connection manager: velum/impl/gateway.py.                      *)
(***************************************************************************)
\* float("nan"): every comparison with it is false
NaN == -1

Attempts == 1..MaxAttempts

\* a <= b on floats
FloatLeq(a, b) == a /= NaN /\ b /= NaN /\ a <= b

\* time.monotonic(): a reading is never smaller than an earlier one
ClockReads(g) ==
  LET m == IF g.last_heartbeat > g.last_heartbeat_ack
           THEN g.last_heartbeat ELSE g.last_heartbeat_ack
      m0 == IF m < 0 THEN 0 ELSE m
  IN {m0, m0 + 1}

\* The code only compares the two timestamps with each other, so they are
\* kept relative to the older one.
Relative(g) ==
  LET l == g.last_heartbeat
      k == g.last_heartbeat_ack
      lo == IF l = NaN THEN k ELSE IF k = NaN THEN l ELSE IF l < k THEN l ELSE k
  IN [g EXCEPT !.last_heartbeat = IF l = NaN THEN NaN ELSE l - lo,
               !.last_heartbeat_ack = IF k = NaN THEN NaN ELSE k - lo]

SetAck_never(g, t) == g

SetAck(g, t) == Relative([g EXCEPT !.last_heartbeat_ack = t])
SetLast(g, t) == Relative([g EXCEPT !.last_heartbeat = t])

\* ExponentialBackoff.__next__: base ** increment, capped at maximum
BackoffBase == 2
BackoffMaximum == 60

RECURSIVE Power(_, _)
Power(b, n) == IF n = 0 THEN 1 ELSE b * Power(b, n - 1)

BackoffValue(increment) ==
  IF Power(BackoffBase, increment) >= BackoffMaximum
  THEN BackoffMaximum ELSE Power(BackoffBase, increment)

BackoffNext(increment) ==
  IF Power(BackoffBase, increment) >= BackoffMaximum THEN increment ELSE increment + 1

\* ExponentialBackoff.reset
BackoffReset == 0

HbDone(a) == hb[a] \in {"returned", "failed", "cancelled"}
PlDone(a) == pl[a].pc \in {"failed_conn", "failed_other", "cancelled"}

\* future.cancel() for the tasks of cancel_futures that are not done: a
\* heartbeat or poll task has no handler for the cancellation and ends.
CancelHb(h, a) ==
  [b \in Attempts |-> IF b = a /\ h[b] \in {"created", "jitter", "sending", "sleep"}
                      THEN "cancelled" ELSE h[b]]

CancelPl(q, a) ==
  [b \in Attempts |-> IF b = a /\ q[b].pc \in {"created", "recv"}
                      THEN [q[b] EXCEPT !.pc = "cancelled"] ELSE q[b]]

GatewayEvent(type) ==
  [type |-> type, val |-> 0, by |-> "gateway",
   failed_event |-> 0, failed_callback |-> "none", exception |-> 0]

EngineUnchanged == UNCHANGED <<events, calls, waiters, waiter_group_count, wt>>

\* _keep_alive from `try:` on: started_at is set and _connect() begins to
\* open a transport. (_connect's check that no transport is held never
\* fails here: the handle is cleared by every cleanup.)
EnterTry(g, k, b) ==
  /\ attempts < MaxAttempts
  /\ attempts' = attempts + 1
  /\ gw' = [g EXCEPT !.started_at = "set"]
  /\ ka' = [k EXCEPT !.pc = "ws_connect"]
  /\ backoff' = b

\* time.monotonic() - self._started_at, compared with _BACKOFF_WINDOW: it is
\* infinite for started_at = -inf and depends on the clock otherwise.
Elapsed(g, chosen) ==
  IF g.started_at = "-inf" THEN "inf"
  ELSE IF chosen THEN "less" ELSE "not_less"

WithinWindow_clock_only(g, chosen) == chosen

\* True when the loop backs off: time.monotonic() - started_at < _BACKOFF_WINDOW
WithinWindow(g, chosen) == Elapsed(g, chosen) = "less"

\* _keep_alive from `while True:` on, up to its next await
LoopTop(g, k, b) ==
  LET g1 == [g EXCEPT !.connection_event = "clear"]
      k1 == [k EXCEPT !.exc = "none", !.raceexc = "none"]
  IN \E chosen \in BOOLEAN :
       LET k2 == [k1 EXCEPT !.elapsed = Elapsed(g, chosen)]
       IN IF WithinWindow(g, chosen)
          THEN /\ attempts < MaxAttempts
               /\ gw' = g1
               /\ ka' = [k2 EXCEPT !.pc = "backoff_sleep"]
               /\ backoff' = BackoffNext(b)
               /\ UNCHANGED attempts
          ELSE /\ (g.started_at = "-inf" \/ ~chosen)
               /\ EnterTry(g1, k2, b)

LoopReturns_always(exc) == TRUE

\* `return` in the except clause for asyncio.CancelledError; the other
\* except clauses log and fall through to the next iteration.
LoopReturns(exc) == exc = "cancelled"

\* The end of the finally clause: the DisconnectEvent is dispatched, then
\* the loop returns (after a cancellation) or goes round.
AfterCleanup(g, k, b) ==
  /\ DispatchEffect(GatewayEvent("DisconnectEvent"), calls)
  /\ IF LoopReturns(k.exc)
     THEN /\ gw' = g
          /\ ka' = [k EXCEPT !.pc = "done"]
          /\ backoff' = b
          /\ UNCHANGED attempts
     ELSE LoopTop(g, k, b)

Finally_handle_only(g, k, b, t) ==
  /\ tr' = t
  /\ AfterCleanup([g EXCEPT !.gateway_ws = 0], k, b)

\* The finally clause of _keep_alive, up to its next await. The tasks of
\* lifetime_tasks are cancelled by the caller (CancelHb, CancelPl).
\* send_close on a transport that is already closed returns at once.
Finally(g, k, b, t) ==
  LET ws == g.gateway_ws
      g1 == [g EXCEPT !.gateway_ws = 0]
  IN IF ws /= 0 /\ t[ws].st = "open"
     THEN /\ gw' = g1
          /\ tr' = [t EXCEPT ![ws].st = "closed", ![ws].code = 1000]
          /\ ka' = [k EXCEPT !.pc = "closing_ws"]
          /\ backoff' = b
          /\ UNCHANGED attempts
          /\ EngineUnchanged
     ELSE /\ tr' = t
          /\ AfterCleanup(g1, k, b)

\* The except clauses of _keep_alive: a cancellation marks the handler
\* closing and returns, every other error is logged.
Except(g, k, exc) ==
  IF exc = "cancelled" THEN [g EXCEPT !.is_closing = TRUE] ELSE g

\* an error raised inside the try block of _keep_alive
Raise(g, k, b, t, exc) == Finally(Except(g, k, exc), [k EXCEPT !.exc = exc], b, t)

\* Some task or callback is ready to run: the event loop runs it before
\* it waits for a timer (the 0.25 s sleep that ends send_close, the backoff
\* sleep, the 10 s authentication timeout).
ReadyToRun ==
  \/ spc = "waking"
  \/ consumptions > 0
  \/ \E a \in Attempts : hb[a] = "created" \/ pl[a].pc = "created"
  \/ \E c \in 1..Len(calls) : calls[c].st = "created"

KRunning == ka.pc \notin {"none", "done", "cancelled"}

AlreadyStarted_never(g) == FALSE

\* `if self._connection_event:` an asyncio.Event is true, set or not
AlreadyStarted(g) == g.connection_event /= "none"

Inactive_never(g) == FALSE

\* `if not self._keep_alive_task:`
Inactive(g) == ~g.keep_alive_task

\* start(), called by a caller whose close() has not raised
start ==
  /\ spc = "idle"
  /\ cpc = "idle"
  /\ IF AlreadyStarted(gw)
     THEN /\ spc' = "raised"
          /\ UNCHANGED <<gw, ka>>
     ELSE /\ spc' = "waiting"
          /\ gw' = [gw EXCEPT !.connection_event = "clear"]
          /\ ka' = [ka EXCEPT !.pc = "created"]
  /\ UNCHANGED <<hb, pl, tr, backoff, attempts, consumptions, cpc, hist, second>>
  /\ UNCHANGED emvars

\* start() resumes from first_completed: the connection event was set
start_resume ==
  /\ spc = "waking"
  /\ IF gw.connection_event = "set"
     THEN /\ spc' = "returned"
          /\ gw' = [gw EXCEPT !.keep_alive_task = TRUE]
     ELSE /\ spc' = "raised"
          /\ UNCHANGED gw
  /\ UNCHANGED <<ka, hb, pl, tr, backoff, attempts, consumptions, cpc, hist, second>>
  /\ UNCHANGED emvars

\* the keep-alive task runs for the first time
keep_alive_begin ==
  /\ ka.pc = "created"
  /\ LoopTop(gw, ka, backoff)
  /\ UNCHANGED <<hb, pl, tr, consumptions, spc, cpc, hist, second>>
  /\ UNCHANGED emvars

\* `await asyncio.sleep(backoff_time)` ends
keep_alive_backoff_done ==
  /\ ka.pc = "backoff_sleep"
  /\ ~ka.cancel
  /\ ~ReadyToRun
  /\ EnterTry(gw, ka, backoff)
  /\ UNCHANGED <<hb, pl, tr, consumptions, spc, cpc, hist, second>>
  /\ UNCHANGED emvars

\* `if self._gateway_ws is not None:` at the top of _connect
AlreadyConnected(g) == g.gateway_ws /= 0

\* _connect raises RuntimeError when the handler has a transport; otherwise
\* GatewayWebsocket.connect returns a transport or raises
connect_transport(outcome) ==
  /\ ka.pc = "ws_connect"
  /\ ~ka.cancel
  /\ IF AlreadyConnected(gw)
     THEN Raise(gw, ka, backoff, tr, "other")
     ELSE IF outcome = "ok"
     THEN /\ tr' = [tr EXCEPT ![attempts].st = "open"]
          /\ gw' = [gw EXCEPT !.gateway_ws = attempts]
          /\ ka' = [ka EXCEPT !.pc = "poll_hello"]
          /\ UNCHANGED <<backoff, attempts>>
          /\ EngineUnchanged
     ELSE Raise(gw, ka, backoff, tr, outcome)
  /\ UNCHANGED <<hb, pl, consumptions, spc, cpc, hist, second>>
  /\ UNCHANGED <<listeners, listener_group_count, nsubs>>

\* _poll_hello_event reads the first frame; on HELLO, _connect sends
\* AUTHENTICATE and spawns the heartbeat and the poll task.
poll_hello_event(frame) ==
  /\ ka.pc = "poll_hello"
  /\ ~ka.cancel
  /\ LET a == gw.gateway_ws
     IN CASE frame = "HELLO" ->
               /\ tr' = [tr EXCEPT ![a].hello = TRUE, ![a].auth_sent = TRUE]
               /\ hb' = [hb EXCEPT ![a] = "created"]
               /\ pl' = [pl EXCEPT ![a].pc = "created"]
               /\ ka' = [ka EXCEPT !.pc = "auth_wait"]
               /\ UNCHANGED <<gw, backoff, attempts>>
               /\ EngineUnchanged
          [] frame = "OTHER_OP" ->
               \* send_close(code=1002), then RuntimeError
               /\ Raise(gw, ka, backoff,
                        [tr EXCEPT ![a].st = "closed", ![a].code = 1002], "other")
               /\ UNCHANGED <<hb, pl>>
          [] frame = "CLOSE" ->
               \* GatewayConnectionClosedError is not a GatewayConnectionError
               /\ Raise(gw, ka, backoff, tr, "other")
               /\ UNCHANGED <<hb, pl>>
          [] frame = "CLOSED" ->
               /\ Raise(gw, ka, backoff, tr, "conn_err")
               /\ UNCHANGED <<hb, pl>>
  /\ UNCHANGED <<consumptions, spc, cpc, hist, second>>
  /\ UNCHANGED <<listeners, listener_group_count, nsubs>>

AuthWaitDone_at_once == TRUE

\* `await self._authenticated_event.wait()` has returned
AuthWaitDone == gw.authenticated_event

\* _connect: the authenticated event is set within the timeout
connect_authenticated ==
  /\ ka.pc = "auth_wait"
  /\ ~ka.cancel
  /\ AuthWaitDone
  /\ gw' = [gw EXCEPT !.connection_event = "set"]
  /\ DispatchEffect(GatewayEvent("ConnectionEvent"), calls)
  /\ ka' = [ka EXCEPT !.pc = "race", !.lifetime_tasks = gw.gateway_ws]
  /\ spc' = IF spc = "waiting" THEN "waking" ELSE spc
  /\ UNCHANGED <<hb, pl, tr, backoff, attempts, consumptions, cpc, hist, second>>
  /\ UNCHANGED <<listeners, listener_group_count, nsubs>>

\* _connect: asyncio.TimeoutError after 10 s becomes a GatewayConnectionError;
\* lifetime_tasks keeps its previous value.
connect_auth_timeout ==
  /\ ka.pc = "auth_wait"
  /\ ~ka.cancel
  /\ ~AuthWaitDone
  /\ ~ReadyToRun
  /\ Raise(gw, ka, backoff, tr, "conn_err")
  /\ hb' = CancelHb(hb, ka.lifetime_tasks)
  /\ pl' = CancelPl(pl, ka.lifetime_tasks)
  /\ UNCHANGED <<consumptions, spc, cpc, hist, second>>
  /\ UNCHANGED <<listeners, listener_group_count, nsubs>>

\* The error first_completed raises for the lifetime task that ended first.
TaskError(which, a) ==
  IF which = "heartbeat"
  THEN (IF hb[a] = "failed" THEN "other" ELSE "none")
  ELSE (IF pl[a].pc = "failed_conn" THEN "conn_err" ELSE "other")

AfterRace_always_resets(exc, h, q) ==
  /\ Raise(gw, ka, BackoffReset, tr, exc)
  /\ hb' = CancelHb(h, ka.lifetime_tasks)
  /\ pl' = CancelPl(q, ka.lifetime_tasks)

\* _keep_alive after first_completed and its cancel_futures: reset the
\* backoff when nothing was raised, else the except clause; then finally.
AfterRace(exc, h, q) ==
  /\ Raise(gw, ka, IF exc = "none" THEN BackoffReset ELSE backoff, tr, exc)
  /\ hb' = CancelHb(h, ka.lifetime_tasks)
  /\ pl' = CancelPl(q, ka.lifetime_tasks)

\* first_completed(*lifetime_tasks): one of the tasks has ended; the finally
\* clause cancels the other one and awaits it.
first_completed_done(which) ==
  /\ ka.pc = "race"
  /\ ~ka.cancel
  /\ LET a == ka.lifetime_tasks
     IN /\ IF which = "heartbeat" THEN HbDone(a) ELSE PlDone(a)
        /\ IF HbDone(a) /\ PlDone(a)
           THEN AfterRace(TaskError(which, a), hb, pl)
           ELSE /\ hb' = CancelHb(hb, a)
                /\ pl' = CancelPl(pl, a)
                /\ ka' = [ka EXCEPT !.pc = "race_cancel", !.raceexc = TaskError(which, a)]
                /\ UNCHANGED <<gw, tr, backoff, attempts>>
                /\ EngineUnchanged
  /\ UNCHANGED <<consumptions, spc, cpc, hist, second>>
  /\ UNCHANGED <<listeners, listener_group_count, nsubs>>

\* cancel_futures in first_completed resumes from `await future`
first_completed_cancelled ==
  /\ ka.pc = "race_cancel"
  /\ AfterRace(ka.raceexc, hb, pl)
  /\ UNCHANGED <<consumptions, spc, cpc, hist, second>>
  /\ UNCHANGED <<listeners, listener_group_count, nsubs>>

\* send_close(code=1000) of the finally clause has returned
keep_alive_closed ==
  /\ ka.pc = "closing_ws"
  /\ ~ka.cancel
  /\ ~ReadyToRun
  /\ AfterCleanup(gw, ka, backoff)
  /\ UNCHANGED <<hb, pl, tr, consumptions, spc, cpc, hist, second>>
  /\ UNCHANGED <<listeners, listener_group_count, nsubs>>

\* The CancelledError requested by close() is raised in the keep-alive task
\* at the await it is suspended in.
keep_alive_cancelled ==
  /\ ka.cancel
  /\ CASE ka.pc \in {"backoff_sleep", "closing_ws"} ->
            \* outside the try block, or inside the finally clause
            /\ ka' = [ka EXCEPT !.pc = "cancelled", !.cancel = FALSE]
            /\ UNCHANGED <<gw, hb, pl, tr, backoff, attempts>>
            /\ EngineUnchanged
       [] ka.pc \in {"ws_connect", "poll_hello", "auth_wait"} ->
            /\ Raise(gw, [ka EXCEPT !.cancel = FALSE], backoff, tr, "cancelled")
            /\ hb' = CancelHb(hb, ka.lifetime_tasks)
            /\ pl' = CancelPl(pl, ka.lifetime_tasks)
       [] ka.pc = "race" ->
            \* first_completed's finally clause cancels both lifetime tasks
            /\ hb' = CancelHb(hb, ka.lifetime_tasks)
            /\ pl' = CancelPl(pl, ka.lifetime_tasks)
            /\ ka' = [ka EXCEPT !.pc = "race_cancel", !.raceexc = "cancelled",
                                !.cancel = FALSE]
            /\ UNCHANGED <<gw, tr, backoff, attempts>>
            /\ EngineUnchanged
  /\ UNCHANGED <<consumptions, spc, cpc, hist, second>>
  /\ UNCHANGED <<listeners, listener_group_count, nsubs>>

\* A CancelledError raised in the keep-alive task while it is suspended in
\* cancel_futures' `await future` is caught by the except clause around
\* that await and passed over.
CancelSwallowed(k) == k.pc = "race_cancel"

\* close(), called by a caller that is not inside start(): before start()
\* or after start() has returned
close ==
  /\ cpc = "idle"
  /\ spc \in {"idle", "returned"}
  /\ IF Inactive(gw)
     THEN /\ cpc' = "raised"
          /\ UNCHANGED <<gw, ka, hist>>
     ELSE IF gw.is_closing
     THEN /\ cpc' = "awaiting"
          /\ UNCHANGED <<gw, ka, hist>>
     ELSE /\ cpc' = "awaiting"
          /\ gw' = [gw EXCEPT !.is_closing = TRUE]
          /\ hist' = [hist EXCEPT !.cancel_requested = TRUE]
          /\ ka' = IF KRunning /\ ~CancelSwallowed(ka)
                   THEN [ka EXCEPT !.cancel = TRUE] ELSE ka
  /\ UNCHANGED <<hb, pl, tr, backoff, attempts, consumptions, spc, second>>
  /\ UNCHANGED emvars

\* close() resumes from cancel_futures: the keep-alive task has ended
close_resume ==
  /\ cpc = "awaiting"
  /\ ~KRunning
  /\ cpc' = "returned"
  /\ gw' = [gw EXCEPT !.keep_alive_task = FALSE, !.is_closing = FALSE]
  /\ UNCHANGED <<ka, hb, pl, tr, backoff, attempts, consumptions, spc, hist, second>>
  /\ UNCHANGED emvars

\* GatewayHandler.is_alive
is_alive == gw.keep_alive_task

\* start() called a second time, after the first call. (Were the call
\* accepted, its caller would wait for the connection event like the first.)
start_second ==
  /\ second.start = "idle"
  /\ spc /= "idle"
  /\ IF AlreadyStarted(gw)
     THEN /\ second' = [second EXCEPT !.start = "raised"]
          /\ UNCHANGED <<gw, ka>>
     ELSE /\ second' = [second EXCEPT !.start = "waiting"]
          /\ gw' = [gw EXCEPT !.connection_event = "clear"]
          /\ ka' = [pc |-> "created", exc |-> "none", raceexc |-> "none",
                    cancel |-> FALSE, lifetime_tasks |-> 0, elapsed |-> "none"]
  /\ UNCHANGED <<hb, pl, tr, backoff, attempts, consumptions, spc, cpc, hist>>
  /\ UNCHANGED emvars

\* close() called by another task while start() has not returned
close_during_start ==
  /\ second.close = "idle"
  /\ spc \in {"waiting", "waking"}
  /\ IF Inactive(gw)
     THEN /\ second' = [second EXCEPT !.close = "raised"]
          /\ UNCHANGED <<gw, ka, hist>>
     ELSE IF gw.is_closing
     THEN /\ second' = [second EXCEPT !.close = "awaiting"]
          /\ UNCHANGED <<gw, ka, hist>>
     ELSE /\ second' = [second EXCEPT !.close = "awaiting_cancel"]
          /\ gw' = [gw EXCEPT !.is_closing = TRUE]
          /\ hist' = [hist EXCEPT !.cancel_requested = TRUE]
          /\ ka' = IF KRunning /\ ~CancelSwallowed(ka)
                   THEN [ka EXCEPT !.cancel = TRUE] ELSE ka
  /\ UNCHANGED <<hb, pl, tr, backoff, attempts, consumptions, spc, cpc>>
  /\ UNCHANGED emvars

\* close() called a second time, while the first call is in flight or after
\* it has returned
close_second ==
  /\ second.close = "idle"
  /\ cpc \in {"awaiting", "returned"}
  /\ IF Inactive(gw)
     THEN /\ second' = [second EXCEPT !.close = "raised"]
          /\ UNCHANGED <<gw, ka, hist>>
     ELSE IF gw.is_closing
     THEN /\ second' = [second EXCEPT !.close = "awaiting"]
          /\ UNCHANGED <<gw, ka, hist>>
     ELSE /\ second' = [second EXCEPT !.close = "awaiting_cancel"]
          /\ gw' = [gw EXCEPT !.is_closing = TRUE]
          /\ hist' = [hist EXCEPT !.cancel_requested = TRUE]
          /\ ka' = IF KRunning /\ ~CancelSwallowed(ka)
                   THEN [ka EXCEPT !.cancel = TRUE] ELSE ka
  /\ UNCHANGED <<hb, pl, tr, backoff, attempts, consumptions, spc, cpc>>
  /\ UNCHANGED emvars

\* The second close() resumes: `await asyncio.wait_for(asyncio.shield(task),
\* timeout=None)` returns when the keep-alive task has returned and raises
\* CancelledError when that task ended cancelled; a call that did the
\* cancelling itself resumes from cancel_futures.
close_second_resume ==
  /\ second.close \in {"awaiting", "awaiting_cancel"}
  /\ ~KRunning
  /\ IF second.close = "awaiting_cancel"
     THEN /\ second' = [second EXCEPT !.close = "returned"]
          /\ gw' = [gw EXCEPT !.keep_alive_task = FALSE, !.is_closing = FALSE]
     ELSE /\ second' = [second EXCEPT !.close =
                          IF ka.pc = "cancelled" THEN "cancelled_error" ELSE "returned"]
          /\ UNCHANGED gw
  /\ UNCHANGED <<ka, hb, pl, tr, backoff, attempts, consumptions, spc, cpc, hist>>
  /\ UNCHANGED emvars

\* _heartbeat up to `await asyncio.sleep(jitter)`
heartbeat_begin(a) ==
  /\ hb[a] = "created"
  /\ IF gw.gateway_ws = 0
     THEN /\ hb' = [hb EXCEPT ![a] = "failed"]
          /\ UNCHANGED gw
     ELSE /\ hb' = [hb EXCEPT ![a] = "jitter"]
          /\ \E t \in ClockReads(gw) : gw' = SetAck(gw, t)
  /\ UNCHANGED <<ka, pl, tr, backoff, attempts, consumptions, spc, cpc, hist, second>>
  /\ UNCHANGED emvars

Unacknowledged_never(g) == FALSE

\* self._last_heartbeat_ack <= self._last_heartbeat
Unacknowledged(g) == FloatLeq(g.last_heartbeat_ack, g.last_heartbeat)

\* _heartbeat: a tick of the loop, up to the await of _send_heartbeat
heartbeat_tick(a) ==
  /\ hb[a] \in {"jitter", "sleep"}
  /\ IF Unacknowledged(gw)
     THEN /\ hb' = [hb EXCEPT ![a] = "returned"]
          /\ UNCHANGED <<tr, hist>>
     ELSE IF gw.gateway_ws = 0 \/ tr[gw.gateway_ws].st /= "open"
     THEN /\ hb' = [hb EXCEPT ![a] = "failed"]
          /\ UNCHANGED <<tr, hist>>
     ELSE /\ hist.pings_sent < MaxPings
          /\ hb' = [hb EXCEPT ![a] = "sending"]
          /\ tr' = [tr EXCEPT ![gw.gateway_ws].pings = @ + 1]
          /\ hist' = [hist EXCEPT !.pings_sent = @ + 1, !.pinged[a] = TRUE]
  /\ UNCHANGED <<gw, ka, pl, backoff, attempts, consumptions, spc, cpc, second>>
  /\ UNCHANGED emvars

\* _send_heartbeat after send_json: the send time is recorded
heartbeat_sent(a) ==
  /\ hb[a] = "sending"
  /\ hb' = [hb EXCEPT ![a] = "sleep"]
  /\ \E t \in ClockReads(gw) : gw' = SetLast(gw, t)
  /\ UNCHANGED <<ka, pl, tr, backoff, attempts, consumptions, spc, cpc, hist, second>>
  /\ UNCHANGED emvars

\* The transport the poll task reads its next frame from: the handler's
\* current one. Without a transport, or with another poll task already
\* receiving on it, the call raises.
NextReceive(q, a) ==
  IF gw.gateway_ws = 0
     \/ \E b \in Attempts : b /= a /\ q[b].pc = "recv" /\ q[b].ws = gw.gateway_ws
  THEN [q EXCEPT ![a].pc = "failed_other"]
  ELSE [q EXCEPT ![a].pc = "recv", ![a].ws = gw.gateway_ws]

\* _poll_events up to its first receive_json
poll_events_begin(a) ==
  /\ pl[a].pc = "created"
  /\ pl' = NextReceive(pl, a)
  /\ UNCHANGED <<gw, ka, hb, tr, backoff, attempts, consumptions, spc, cpc, hist, second>>
  /\ UNCHANGED emvars

\* str.lower() on the raw event names
lower(event_name) ==
  CASE event_name \in {"AUTHENTICATED", "Authenticated"} -> "authenticated"
    [] event_name \in {"MESSAGE_CREATE", "message_create"} -> "message_create"
    [] event_name \in {"HELLO", "hello"} -> "hello"
    [] event_name \in {"TYPING", "typing"} -> "typing"

HasConsumer_always(event_name) == TRUE

\* self._consumers.get(event_name.lower()) finds a consumer
HasConsumer(event_name) == lower(event_name) \in ConsumerNames

\* consume_raw_event, as a function of the number of _handle_consumption
\* tasks: a task is made when the consumer exists, otherwise a warning is
\* logged and nothing else happens.
consume_raw_event(tasks, event_name) ==
  IF HasConsumer(event_name) THEN tasks + 1 ELSE tasks

\* _poll_events: one frame is received and handled
poll_events(a, frame) ==
  /\ pl[a].pc = "recv"
  /\ LET ws == pl[a].ws
     IN /\ tr[ws].st = "open"
        /\ CASE frame = "PONG" ->
                  /\ tr[ws].pings > 0
                  /\ tr' = [tr EXCEPT ![ws].pings = @ - 1]
                  /\ \E t \in ClockReads(gw) : gw' = SetAck(gw, t)
                  /\ hist' = [hist EXCEPT !.pinged = [b \in Attempts |-> FALSE]]
                  /\ pl' = NextReceive(pl, a)
                  /\ UNCHANGED consumptions
             [] frame = "AUTHENTICATED" ->
                  \* consume_raw_event: the consumer is found, a task is made
                  /\ tr[ws].auth_sent /\ ~tr[ws].authed
                  /\ tr' = [tr EXCEPT ![ws].authed = TRUE]
                  /\ consumptions' = consume_raw_event(consumptions, frame)
                  /\ pl' = NextReceive(pl, a)
                  /\ UNCHANGED <<gw, hist>>
             [] frame = "CLOSE" ->
                  /\ pl' = [pl EXCEPT ![a].pc = "failed_other"]
                  /\ UNCHANGED <<gw, tr, consumptions, hist>>
             [] frame = "TYPING" ->
                  \* consume_raw_event: no consumer has this name
                  /\ consumptions' = consume_raw_event(consumptions, frame)
                  /\ hist' = [hist EXCEPT !.unknown = @ + 1]
                  /\ pl' = NextReceive(pl, a)
                  /\ UNCHANGED <<gw, tr>>
  /\ UNCHANGED <<ka, hb, backoff, attempts, spc, cpc, second>>
  /\ UNCHANGED emvars

\* _poll_events: the transport was closed under the pending receive
poll_events_closed(a) ==
  /\ pl[a].pc = "recv"
  /\ tr[pl[a].ws].st = "closed"
  /\ pl' = [pl EXCEPT ![a].pc = "failed_conn"]
  /\ UNCHANGED <<gw, ka, hb, tr, backoff, attempts, consumptions, spc, cpc, hist, second>>
  /\ UNCHANGED emvars

\* The event class that the handler of consumer c deserializes and
\* dispatches.
HandlerEvent(c) ==
  CASE c = "message_create" -> "MessageCreateEvent"
    [] c = "hello" -> "HelloEvent"
    [] c = "authenticated" -> "AuthenticatedEvent"

\* _handle_consumption of a task made for consumer c: the handler on_<c> is
\* invoked when the consumer is enabled, and dispatches its event
handle_consumption_of(c) ==
  /\ consumptions > 0
  /\ consumptions' = consumptions - 1
  /\ IF is_enabled(c)
     THEN DispatchEffect(GatewayEvent(HandlerEvent(c)), calls)
     ELSE EngineUnchanged
  /\ UNCHANGED <<gw, ka, hb, pl, tr, backoff, attempts, spc, cpc, hist, second>>
  /\ UNCHANGED <<listeners, listener_group_count, nsubs>>

\* _handle_consumption of the "authenticated" consumer: on_authenticated
\* dispatches the AuthenticatedEvent when the consumer is enabled
handle_consumption == handle_consumption_of("authenticated")

\* consume_raw_event(event_name, ...) called on the engine directly
raw_event(event_name) ==
  /\ hist.raw < MaxRaw
  /\ hist' = [hist EXCEPT !.raw = @ + 1]
  /\ consumptions' = consume_raw_event(consumptions, event_name)
  /\ UNCHANGED <<gw, ka, hb, pl, tr, backoff, attempts, spc, cpc, second>>
  /\ UNCHANGED emvars

\* _handle_authenticated, invoked as a listener by _invoke_callback
handle_authenticated(c) ==
  /\ c \in 1..Len(calls)
  /\ calls[c].cb = "_handle_authenticated"
  /\ invoke_callback(c, FALSE)
  /\ gw' = [gw EXCEPT !.authenticated_event = TRUE]
  /\ UNCHANGED <<ka, hb, pl, tr, backoff, attempts, consumptions, spc, cpc, hist, second>>

\* GatewayHandler.__init__
InitHandler ==
  /\ gw = [connection_event |-> "none", authenticated_event |-> FALSE,
           gateway_ws |-> 0, is_closing |-> FALSE, keep_alive_task |-> FALSE,
           last_heartbeat |-> NaN, last_heartbeat_ack |-> NaN, started_at |-> "-inf"]
  /\ ka = [pc |-> "none", exc |-> "none", raceexc |-> "none", cancel |-> FALSE,
           lifetime_tasks |-> 0, elapsed |-> "none"]
  /\ hb = [a \in Attempts |-> "none"]
  /\ pl = [a \in Attempts |-> [pc |-> "none", ws |-> 0]]
  /\ tr = [a \in Attempts |-> [st |-> "none", code |-> 0, pings |-> 0, hello |-> FALSE,
                               auth_sent |-> FALSE, authed |-> FALSE]]
  /\ backoff = 0
  /\ attempts = 0
  /\ consumptions = 0
  /\ spc = "idle"
  /\ cpc = "idle"
  /\ hist = [cancel_requested |-> FALSE, pings_sent |-> 0,
             pinged |-> [a \in Attempts |-> FALSE], unknown |-> 0, raw |-> 0]
  /\ second = [start |-> "idle", close |-> "idle"]

(***************************************************************************)
(* ExponentialBackoff: velum/impl/rate_limits.py.                          *)
(***************************************************************************)
\* ExponentialBackoff.__init__; draws and value record the calls of
\* __next__ since construction or the last reset(), and the last result.
NewBackoff(base, maximum, initial_increment) ==
  [base |-> base, maximum |-> maximum, increment |-> initial_increment,
   initial_increment |-> initial_increment, draws |-> 0, value |-> 0]

Capped_never(b) == FALSE

\* `if value >= self.maximum` for value = self.base ** self.increment
Capped(b) == Power(b.base, b.increment) >= b.maximum

\* ExponentialBackoff.__next__
ExponentialBackoff_next ==
  /\ eb.draws < MaxDraws
  /\ eb' = [eb EXCEPT !.value = IF Capped(eb) THEN eb.maximum
                                 ELSE Power(eb.base, eb.increment),
                      !.increment = IF Capped(eb) THEN @ ELSE @ + 1,
                      !.draws = @ + 1]

\* ExponentialBackoff.reset
ExponentialBackoff_reset ==
  /\ eb.draws > 0
  /\ eb' = [eb EXCEPT !.increment = eb.initial_increment, !.draws = 0]

(***************************************************************************)
(* Registration of event classes: velum/events/base_events.py.             *)
(***************************************************************************)
\* _id_counter = 1; Event.bitmask = 1. A class is recorded with its
\* bitmask, whether "__attrs_attrs__" is in its __dict__, and whether the
\* attrs decorator still has to re-create it.
InitClasses ==
  /\ id_counter = 1
  /\ event_classes = ("Event" :> [bitmask |-> 1, attrs |-> FALSE, pending |-> FALSE])

HasAttrs_never(class_dict) == FALSE

\* "__attrs_attrs__" in cls.__dict__
HasAttrs(class_dict) == class_dict.attrs

\* Event.__init_subclass__ on a class with the given __dict__: the new
\* __dict__ and the new value of _id_counter.
init_subclass(class_dict, counter) ==
  IF HasAttrs(class_dict)
  THEN <<class_dict, counter>>
  ELSE <<[class_dict EXCEPT !.bitmask = Pow2(counter)], counter + 1>>

\* A class statement for a subclass of Event; slots tells whether it is
\* decorated with attr.define, which re-creates the class afterwards.
class_created(cls, slots) ==
  /\ cls \notin DOMAIN event_classes
  /\ Cardinality(DOMAIN event_classes) <= MaxClasses
  /\ LET r == init_subclass([bitmask |-> 0, attrs |-> FALSE, pending |-> slots], id_counter)
     IN /\ event_classes' = (cls :> r[1]) @@ event_classes
        /\ id_counter' = r[2]

\* attr.define builds the class again from a copy of its __dict__ to which
\* "__attrs_attrs__" was added; __init_subclass__ runs on the new class.
attrs_define(cls) ==
  /\ cls \in DOMAIN event_classes
  /\ event_classes[cls].pending
  /\ LET r == init_subclass([event_classes[cls] EXCEPT !.attrs = TRUE, !.pending = FALSE],
                            id_counter)
     IN /\ event_classes' = [event_classes EXCEPT ![cls] = r[1]]
        /\ id_counter' = r[2]

(***************************************************************************)
(* GatewayWebsocket.send_close: velum/impl/gateway.py.                     *)
(***************************************************************************)
CloseCallers == 1..MaxCloseCalls

\* GatewayWebsocket.__init__: _closed = False. frames are the close frames
\* that were sent, released counts the runs of _exit_stack.aclose(), and
\* callers are the send_close() calls with their position and arguments.
InitSocket ==
  sock = [closed |-> FALSE, frames |-> <<>>, released |-> 0,
          callers |-> [c \in CloseCallers |-> [pc |-> "idle", code |-> 0]]]

AlreadyClosed_never(s) == FALSE

\* `if self._closed:`
AlreadyClosed(s) == s.closed

\* send_close(code=...) up to its first await
send_close(c, code) ==
  /\ sock.callers[c].pc = "idle"
  /\ \A d \in 1..(c - 1) : sock.callers[d].pc /= "idle"
  /\ IF AlreadyClosed(sock)
     THEN sock' = [sock EXCEPT !.callers[c] = [pc |-> "returned", code |-> code]]
     ELSE sock' = [sock EXCEPT !.closed = TRUE,
                               !.callers[c] = [pc |-> "ws_close", code |-> code]]

\* asyncio.wait_for(self._ws.close(...), timeout=5) ends: the close frame
\* was sent, or the timeout was reached and the TimeoutError is passed over
send_close_frame(c, outcome) ==
  /\ sock.callers[c].pc = "ws_close"
  /\ sock' = [sock EXCEPT
                !.frames = IF outcome = "sent" THEN Append(@, sock.callers[c].code) ELSE @,
                !.callers[c].pc = "exit_stack"]

\* the finally clause of send_close: _exit_stack.aclose(), then the 0.25 s
\* sleep, then the call returns
send_close_release(c) ==
  /\ sock.callers[c].pc = "exit_stack"
  /\ sock' = [sock EXCEPT !.released = @ + 1, !.callers[c].pc = "sleep"]

send_close_return(c) ==
  /\ sock.callers[c].pc = "sleep"
  /\ sock' = [sock EXCEPT !.callers[c].pc = "returned"]

\* The objects of the library as the engine and the gateway leave them.
\* EventManagerBase.__init__ of a second EventManager. Its consumers are
\* _BoundConsumer views of the Consumer objects that is_consumer_for put on
\* the class: listener_group_count and waiter_group_count are fields of
\* those objects, the same for every instance of the class.
InitPeer == peer = [listeners |-> <<>>, waiters |-> <<>>, nsubs |-> 0, nwaits |-> 0]

\* subscribe(event_type, callback) on the second EventManager
peer_subscribe(event_type, callback) ==
  /\ peer.nsubs < MaxSubs
  /\ peer' = [peer EXCEPT !.nsubs = @ + 1,
                          !.listeners = subscribed(peer.listeners, event_type, callback)]
  /\ listener_group_count' =
       subscribed_counts(peer.listeners, listener_group_count, event_type)
  /\ UNCHANGED <<listeners, waiters, waiter_group_count, events, calls, wt, nsubs>>

\* unsubscribe(event_type, callback) on the second EventManager, when it
\* changes something
peer_unsubscribe(event_type, callback) ==
  /\ CanUnsubscribe(peer.listeners, event_type, callback)
  /\ peer' = [peer EXCEPT !.listeners = unsubscribed(peer.listeners, event_type, callback)]
  /\ listener_group_count' =
       unsubscribed_counts(peer.listeners, listener_group_count, event_type, callback)
  /\ UNCHANGED <<listeners, waiters, waiter_group_count, events, calls, wt, nsubs>>

\* wait_for(event_type) on the second EventManager, up to its await; the
\* waiter map keeps the number of pairs in each set
peer_wait_for(event_type) ==
  /\ peer.nwaits < MaxWaiters
  /\ IF event_type \in DOMAIN peer.waiters
     THEN /\ peer' = [peer EXCEPT !.nwaits = @ + 1, !.waiters[event_type] = @ + 1]
          /\ UNCHANGED waiter_group_count
     ELSE /\ peer' = [peer EXCEPT !.nwaits = @ + 1,
                                  !.waiters = (event_type :> 1) @@ peer.waiters]
          /\ waiter_group_count' =
               increment_waiter_group_count(waiter_group_count, event_type, 1)
  /\ UNCHANGED <<listeners, waiters, listener_group_count, events, calls, wt, nsubs>>

InitLibrary ==
  /\ eb = NewBackoff(BackoffBase, BackoffMaximum, 0)
  /\ InitClasses
  /\ InitSocket
  /\ InitPeer

(***************************************************************************)
(* Specifications of the dispatch engine.                                  *)
(***************************************************************************)
IdleWaiter ==
  [pc |-> "idle", type |-> "Event", pred |-> "none", timeout |-> FALSE,
   fut |-> "pending", res |-> 0, reg |-> 0]

\* EventManagerBase.__init__
InitEngine ==
  /\ listeners = <<>>
  /\ waiters = <<>>
  /\ listener_group_count = [c \in ConsumerNames |-> 0]
  /\ waiter_group_count = [c \in ConsumerNames |-> 0]
  /\ events = <<>>
  /\ calls = <<>>
  /\ wt = [w \in 1..MaxWaiters |-> IdleWaiter]
  /\ nsubs = 0

\* The engine alone: no listener of a gateway handler is subscribed.
InitEM == InitEngine /\ InitHandler /\ InitLibrary

\* EventManager(), then GatewayHandler(event_manager=...), which subscribes
\* _handle_authenticated to AuthenticatedEvent.
InitGW ==
  /\ listeners = ("AuthenticatedEvent" :> <<"_handle_authenticated">>)
  /\ listener_group_count =
       increment_listener_group_count([c \in ConsumerNames |-> 0], "AuthenticatedEvent", 1)
  /\ waiters = <<>>
  /\ waiter_group_count = [c \in ConsumerNames |-> 0]
  /\ events = <<>>
  /\ calls = <<>>
  /\ wt = [w \in 1..MaxWaiters |-> IdleWaiter]
  /\ nsubs = 0
  /\ InitHandler
  /\ InitLibrary

\* The classes whose instances the environment dispatches.
UserTypes == ListenTypes \ {"ExceptionEvent"}

\* The classes whose instances are dispatched while waiters are observed.
WaitDispatchTypes == {"HelloEvent", "MessageEvent", "MessageCreateEvent"}

\* Listeners: subscriptions, dispatch and the listener invocations.
NextListen ==
  \/ \E t \in ListenTypes, cb \in Callbacks : subscribe(t, cb)
  \/ /\ Cardinality(UserEvents) < MaxDispatch
     /\ \E t \in UserTypes : dispatch(t, 0)
  \/ \E c \in 1..Len(calls), raises \in BOOLEAN : invoke_callback(c, raises)
  \/ \E c \in 1..Len(calls) : invoke_callback_resume(c)

SpecListen == InitEM /\ [][NextListen /\ UNCHANGED <<gwvars, libvars>>]_vars

\* gather() schedules every coroutine it wraps, and a listener that is
\* invoked returns or raises.
SpecListenFair ==
  /\ SpecListen
  /\ \A c \in 1..(MaxDispatch * (1 + MaxSubs) * MaxSubs) :
       /\ WF_vars(UNCHANGED <<gwvars, libvars>> /\ \E raises \in BOOLEAN : invoke_callback(c, raises))
       /\ WF_vars(UNCHANGED <<gwvars, libvars>> /\ invoke_callback_resume(c))

\* Waiters: wait_for, its timeout, and dispatch.
NextWait ==
  \/ \E w \in 1..MaxWaiters, t \in ListenTypes, timeout \in BOOLEAN, p \in Predicates :
       wait_for(w, t, timeout, p)
  \/ \E w \in 1..MaxWaiters : wait_for_deadline(w)
  \/ \E w \in 1..MaxWaiters : wait_for_timeout(w)
  \/ \E w \in 1..MaxWaiters : wait_for_return(w)
  \/ /\ Cardinality(UserEvents) < MaxWaitDispatch
     /\ \E t \in WaitDispatchTypes, v \in Vals : dispatch(t, v)

SpecWait == InitEM /\ [][NextWait /\ UNCHANGED <<gwvars, libvars>>]_vars

\* The classes that are subscribed to and waited for while the registry is
\* observed: the root class and one class of each of two consumers.
RegistryTypes == {"Event", "MessageCreateEvent", "HelloEvent"}

\* The classes whose instances are dispatched while the registry is
\* observed. An ExceptionEvent reaches dispatch() from _invoke_callback in
\* the same way as from any other caller.
RegistryDispatchTypes == {"MessageCreateEvent", "HelloEvent", "ExceptionEvent"}

\* The registry: subscriptions and their removal, waiters and their
\* timeouts, and dispatch.
NextRegistry ==
  \/ \E t \in RegistryTypes : subscribe(t, "cb1")
  \/ \E t \in RegistryTypes : unsubscribe(t, "cb1")
  \/ \E w \in 1..MaxWaiters, t \in RegistryTypes, timeout \in BOOLEAN,
        p \in {"none", "is_one"} :
       wait_for(w, t, timeout, p)
  \/ \E w \in 1..MaxWaiters : wait_for_deadline(w)
  \/ \E w \in 1..MaxWaiters : wait_for_timeout(w)
  \/ \E w \in 1..MaxWaiters : wait_for_return(w)
  \/ /\ Cardinality(UserEvents) < MaxDispatch
     /\ \E t \in RegistryDispatchTypes, v \in Vals : dispatch(t, v)

SpecRegistry == InitEM /\ [][NextRegistry /\ UNCHANGED <<gwvars, libvars>>]_vars

\* Waiters whose callers may give up: wait_for, its timeout, its
\* cancellation, and dispatch.
NextWaitCancel ==
  \/ \E w \in 1..MaxWaiters, t \in RegistryTypes, timeout \in BOOLEAN,
        p \in {"none", "is_one"} :
       wait_for(w, t, timeout, p)
  \/ \E w \in 1..MaxWaiters : wait_for_deadline(w)
  \/ \E w \in 1..MaxWaiters : wait_for_timeout(w)
  \/ \E w \in 1..MaxWaiters : wait_for_return(w)
  \/ \E w \in 1..MaxWaiters : wait_for_cancelled(w)
  \/ /\ Cardinality(UserEvents) < MaxWaitDispatch
     /\ \E t \in WaitDispatchTypes, v \in Vals : dispatch(t, v)

SpecWaitCancel == InitEM /\ [][NextWaitCancel /\ UNCHANGED <<gwvars, libvars>>]_vars

\* Subscriptions: subscribe and unsubscribe with every callback, next to
\* waiters that register for the same types.
NextSubscribe ==
  \/ \E t \in ListenTypes, cb \in Callbacks : subscribe(t, cb)
  \/ \E t \in ListenTypes, cb \in Callbacks : unsubscribe(t, cb)
  \/ \E w \in 1..MaxWaiters, t \in RegistryTypes : wait_for(w, t, FALSE, "none")

SpecSubscribe == InitEM /\ [][NextSubscribe /\ UNCHANGED <<gwvars, libvars>>]_vars

\* Waiters with every kind of predicate next to listeners: wait_for, its
\* return, subscribe and dispatch.
NextPredicate ==
  \/ \E t \in RegistryTypes : subscribe(t, "cb1")
  \/ \E w \in 1..MaxWaiters, t \in RegistryTypes, p \in Predicates :
       wait_for(w, t, FALSE, p)
  \/ \E w \in 1..MaxWaiters : wait_for_return(w)
  \/ /\ Cardinality(UserEvents) < MaxDispatch
     /\ \E t \in WaitDispatchTypes, v \in Vals : dispatch(t, v)

SpecPredicate == InitEM /\ [][NextPredicate /\ UNCHANGED <<gwvars, libvars>>]_vars

\* Two EventManager objects: subscriptions and waiters on each of them.
NextInstances ==
  \/ UNCHANGED peer /\ \E t \in RegistryTypes : subscribe(t, "cb1")
  \/ UNCHANGED peer /\ \E t \in RegistryTypes : unsubscribe(t, "cb1")
  \/ UNCHANGED peer /\ \E w \in 1..MaxWaiters, t \in RegistryTypes :
                        wait_for(w, t, FALSE, "none")
  \/ \E t \in RegistryTypes : peer_subscribe(t, "cb1")
  \/ \E t \in RegistryTypes : peer_unsubscribe(t, "cb1")
  \/ \E t \in RegistryTypes : peer_wait_for(t)

SpecInstances ==
  InitEM /\ [][NextInstances /\ UNCHANGED <<gwvars, eb, id_counter, event_classes, sock>>]_vars

\* Raw events for the message_create consumer, handed to the engine while
\* listeners and waiters come and go.
NextConsume ==
  \/ UNCHANGED gwvars /\ \E t \in RegistryTypes : subscribe(t, "cb1")
  \/ UNCHANGED gwvars /\ \E t \in RegistryTypes : unsubscribe(t, "cb1")
  \/ UNCHANGED gwvars /\ \E w \in 1..MaxWaiters, t \in RegistryTypes :
                           wait_for(w, t, TRUE, "none")
  \/ UNCHANGED gwvars /\ \E w \in 1..MaxWaiters : wait_for_deadline(w)
  \/ UNCHANGED gwvars /\ \E w \in 1..MaxWaiters : wait_for_timeout(w)
  \/ UNCHANGED gwvars /\ \E w \in 1..MaxWaiters : wait_for_return(w)
  \/ raw_event("MESSAGE_CREATE")
  \/ handle_consumption_of("message_create")

SpecConsume == InitEM /\ [][NextConsume /\ UNCHANGED libvars]_vars

\* The gateway: start(), the supervised loop with its tasks, the server and
\* the network, close().
NextGW ==
  \/ start
  \/ start_resume
  \/ keep_alive_begin
  \/ keep_alive_backoff_done
  \/ \E outcome \in {"ok", "conn_err", "other"} : connect_transport(outcome)
  \/ \E frame \in {"HELLO", "OTHER_OP", "CLOSE", "CLOSED"} : poll_hello_event(frame)
  \/ connect_authenticated
  \/ connect_auth_timeout
  \/ \E which \in {"heartbeat", "poll"} : first_completed_done(which)
  \/ first_completed_cancelled
  \/ keep_alive_closed
  \/ keep_alive_cancelled
  \/ close
  \/ close_resume
  \/ \E a \in Attempts : heartbeat_begin(a)
  \/ \E a \in Attempts : heartbeat_tick(a)
  \/ \E a \in Attempts : heartbeat_sent(a)
  \/ \E a \in Attempts : poll_events_begin(a)
  \/ \E a \in Attempts, frame \in {"PONG", "AUTHENTICATED", "CLOSE"} : poll_events(a, frame)
  \/ \E a \in Attempts : poll_events_closed(a)
  \/ handle_consumption
  \/ \E c \in 1..Len(calls) : handle_authenticated(c)

SpecGW == InitGW /\ [][NextGW /\ UNCHANGED libvars]_vars

\* The event loop runs every task that is ready, every sleep ends, and the
\* network ends every connect and delivers the first frame or the loss of
\* the socket. Nothing obliges the caller to call start() or close(), nor
\* the server to send a frame to the poll task.
FairGW ==
  /\ WF_vars(UNCHANGED libvars /\ start_resume)
  /\ WF_vars(UNCHANGED libvars /\ keep_alive_begin)
  /\ WF_vars(UNCHANGED libvars /\ keep_alive_backoff_done)
  /\ WF_vars(UNCHANGED libvars /\ \E outcome \in {"ok", "conn_err", "other"} : connect_transport(outcome))
  /\ WF_vars(UNCHANGED libvars /\ \E frame \in {"HELLO", "OTHER_OP", "CLOSE", "CLOSED"} : poll_hello_event(frame))
  /\ WF_vars(UNCHANGED libvars /\ connect_authenticated)
  /\ WF_vars(UNCHANGED libvars /\ connect_auth_timeout)
  /\ WF_vars(UNCHANGED libvars /\ \E which \in {"heartbeat", "poll"} : first_completed_done(which))
  /\ WF_vars(UNCHANGED libvars /\ first_completed_cancelled)
  /\ WF_vars(UNCHANGED libvars /\ keep_alive_closed)
  /\ WF_vars(UNCHANGED libvars /\ keep_alive_cancelled)
  /\ WF_vars(UNCHANGED libvars /\ close_resume)
  /\ WF_vars(UNCHANGED libvars /\ handle_consumption)
  /\ \A a \in Attempts :
       /\ WF_vars(UNCHANGED libvars /\ heartbeat_begin(a))
       /\ WF_vars(UNCHANGED libvars /\ heartbeat_tick(a))
       /\ WF_vars(UNCHANGED libvars /\ heartbeat_sent(a))
       /\ WF_vars(UNCHANGED libvars /\ poll_events_begin(a))
       /\ WF_vars(UNCHANGED libvars /\ poll_events_closed(a))
       /\ WF_vars(UNCHANGED libvars /\ handle_authenticated(a))

SpecGWFair == SpecGW /\ FairGW


\* The gateway with a server that also sends frames whose event name has no
\* consumer.
NextGWFrames ==
  \/ NextGW
  \/ /\ hist.unknown < MaxUnknown
     /\ \E a \in Attempts : poll_events(a, "TYPING")

SpecGWFrames == InitGW /\ [][NextGWFrames /\ UNCHANGED libvars]_vars

\* The gateway with a caller that calls start() and close() a second time.
NextGWCalls ==
  \/ NextGW
  \/ start_second
  \/ close_second
  \/ close_second_resume

SpecGWCalls == InitGW /\ [][NextGWCalls /\ UNCHANGED libvars]_vars

\* The gateway with a caller that also calls close() while start() has not
\* returned.
NextGWEarly ==
  \/ NextGWCalls
  \/ close_during_start

SpecGWEarly == InitGW /\ [][NextGWEarly /\ UNCHANGED libvars]_vars

\* The gateway with a user who subscribes a listener to HelloEvent.
NextGWHello ==
  \/ NextGW
  \/ UNCHANGED gwvars /\ subscribe("HelloEvent", "cb1")

SpecGWHello == InitGW /\ [][NextGWHello /\ UNCHANGED libvars]_vars

\* The bases and maxima an ExponentialBackoff is constructed with: whole
\* numbers of seconds, the base at least 1.
BackoffBases == {1, 2, 3}
BackoffMaxima == {1, 5, 9, 60}

InitBackoff ==
  /\ InitEngine
  /\ InitHandler
  /\ InitClasses
  /\ InitSocket
  /\ InitPeer
  /\ \E base \in BackoffBases, maximum \in BackoffMaxima : eb = NewBackoff(base, maximum, 0)

NextBackoff ==
  \/ ExponentialBackoff_next
  \/ ExponentialBackoff_reset

SpecBackoff ==
  InitBackoff /\ [][NextBackoff /\ UNCHANGED <<emvars, gwvars, id_counter, event_classes, sock, peer>>]_vars

\* The event classes that are created: the classes of velum.events.
NewClasses ==
  {"ExceptionEvent", "ConnectionEvent", "HelloEvent", "MessageEvent", "MessageCreateEvent"}

InitBits ==
  /\ InitEngine
  /\ InitHandler
  /\ InitLibrary

NextBits ==
  \/ \E cls \in NewClasses, slots \in BOOLEAN : class_created(cls, slots)
  \/ \E cls \in NewClasses : attrs_define(cls)

SpecBits == InitBits /\ [][NextBits /\ UNCHANGED <<emvars, gwvars, eb, sock, peer>>]_vars

\* The close codes the handler passes to send_close: the protocol error of
\* _poll_hello_event and the normal closure of _keep_alive.
CloseCodes == {1000, 1002}

InitTransport ==
  /\ InitEngine
  /\ InitHandler
  /\ InitLibrary

NextTransport ==
  \/ \E c \in CloseCallers, code \in CloseCodes : send_close(c, code)
  \/ \E c \in CloseCallers, outcome \in {"sent", "timeout"} : send_close_frame(c, outcome)
  \/ \E c \in CloseCallers : send_close_release(c)
  \/ \E c \in CloseCallers : send_close_return(c)

SpecTransport ==
  InitTransport /\ [][NextTransport /\ UNCHANGED <<emvars, gwvars, eb, id_counter, event_classes, peer>>]_vars

(***************************************************************************)
(* Properties of the dispatch engine.                                      *)
(***************************************************************************)
\* T's dispatch set as the specification words it: T itself and every
\* ancestor of T that is an Event type.
RECURSIVE IsSelfOrAncestor(_, _)
IsSelfOrAncestor(a, t) ==
  \/ a = t
  \/ t /= "object" /\ IsSelfOrAncestor(a, Base[t])

DispatchSet(t) == {a \in EventTypes : IsSelfOrAncestor(a, t)}

NewCalls == (Len(calls) + 1)..Len(calls')

\* C1: a dispatch of a T-instance creates exactly one invocation for every
\* listener registration on every type of T's dispatch set, none for a
\* registration on any other type, invocations are created by dispatch
\* only, and an invocation runs its callback once.
C1_DispatchInvokesDispatchSetOnce ==
  [][/\ Len(events') = Len(events) =>
          /\ Len(calls') = Len(calls)
          /\ \A c \in 1..Len(calls) :
               /\ calls'[c].cb = calls[c].cb /\ calls'[c].ev = calls[c].ev
               /\ calls[c].st /= "created" => calls'[c].st /= "created"
     /\ Len(events') /= Len(events) =>
          LET evid == Len(events')
              t == events'[evid].type
          IN /\ Len(events') = Len(events) + 1
             /\ \A c \in NewCalls :
                  /\ calls'[c].ev = evid
                  /\ calls'[c].st = "created"
                  /\ calls'[c].cls \in DOMAIN listeners
                  /\ calls'[c].pos \in 1..Len(listeners[calls'[c].cls])
             /\ \A cls \in DOMAIN listeners : \A pos \in 1..Len(listeners[cls]) :
                  Cardinality({c \in NewCalls :
                                 /\ calls'[c].cls = cls
                                 /\ calls'[c].pos = pos
                                 /\ calls'[c].cb = listeners[cls][pos]})
                  = IF cls \in DispatchSet(t) THEN 1 ELSE 0]_vars

\* A MessageCreateEvent was dispatched with a listener on an ancestor and
\* one on an unrelated type: one invocation, of the ancestor's listener.
C1_Witness ==
  /\ Len(events) = 1
  /\ events[1].type = "MessageCreateEvent"
  /\ DOMAIN listeners = {"MessageEvent", "HelloEvent"}
  /\ Len(calls) = 1
  /\ calls[1].cls = "MessageEvent"
  /\ calls[1].st = "done"

\* The ExceptionEvents the engine dispatched for the failure of call c.
ExceptionEventsOf(c) ==
  {k \in 1..Len(events) : events[k].by = "engine" /\ events[k].exception = c}

\* C2: a listener that raised while handling an event that is not an
\* ExceptionEvent caused exactly one ExceptionEvent dispatch, carrying the
\* error, the event and the failed callback.
C2_RaiseDispatchesOneExceptionEvent ==
  \A c \in 1..Len(calls) :
    (calls[c].out = "raised" /\ events[calls[c].ev].type /= "ExceptionEvent") =>
       /\ Cardinality(ExceptionEventsOf(c)) = 1
       /\ \A k \in ExceptionEventsOf(c) :
            /\ events[k].type = "ExceptionEvent"
            /\ events[k].failed_event = calls[c].ev
            /\ events[k].failed_callback = calls[c].cb
            /\ k > calls[c].ev

C2_Witness ==
  \E c \in 1..Len(calls) :
    /\ calls[c].out = "raised"
    /\ events[calls[c].ev].type = "MessageCreateEvent"
    /\ calls[c].st = "done"
    /\ \E k \in ExceptionEventsOf(c) : \E d \in 1..Len(calls) : calls[d].ev = k

\* C3: a listener that raises while handling an ExceptionEvent causes no
\* ExceptionEvent dispatch, so the ExceptionEvents of one dispatch are one
\* generation deep, and the handle of every dispatch completes.
C3_NoRecursionAndCompletion ==
  /\ [](\A c \in 1..Len(calls) :
          events[calls[c].ev].type = "ExceptionEvent" => ExceptionEventsOf(c) = {})
  /\ [](\A k \in 1..Len(events) :
          events[k].by = "engine" => events[events[k].failed_event].by = "user")
  /\ \A i \in 1..(MaxDispatch * (1 + MaxSubs)) :
       [](i <= Len(events) => <>HandleDone(calls, i))

\* Listeners on the base Event type raised on the event and on the
\* ExceptionEvents that followed, and every handle completed.
C3_Witness ==
  /\ \E c \in 1..Len(calls) :
       /\ events[calls[c].ev].type = "ExceptionEvent"
       /\ calls[c].cls = "Event"
       /\ calls[c].out = "raised"
  /\ \A i \in 1..Len(events) : HandleDone(calls, i)

\* p accepts the event and T is in the event's dispatch set
Matches(w, e) ==
  /\ wt[w].type \in DispatchSet(events[e].type)
  /\ PredEval(wt[w].pred, events[e]) = "accept"

\* C4: a waiter resolves with the first event dispatched after its
\* registration whose dispatch set contains T and that p accepts; an event
\* that p rejects (or of another type) leaves it pending; a resolved waiter
\* keeps its result.
C4_WaitForFirstMatch ==
  /\ [](\A w \in 1..MaxWaiters :
          (wt[w].pc /= "idle" /\ wt[w].fut = "result") =>
             /\ wt[w].res \in (wt[w].reg + 1)..Len(events)
             /\ Matches(w, wt[w].res)
             /\ \A e \in (wt[w].reg + 1)..(wt[w].res - 1) : ~Matches(w, e))
  /\ [][\A w \in 1..MaxWaiters :
          /\ (wt[w].pc = "waiting" /\ wt[w].fut = "pending"
              /\ Len(events') = Len(events) + 1) =>
               LET e == events'[Len(events')]
                   inset == wt[w].type \in DispatchSet(e.type)
               IN /\ (inset /\ PredEval(wt[w].pred, e) = "accept") =>
                       (wt'[w].fut = "result" /\ wt'[w].res = Len(events'))
                  /\ (~inset \/ PredEval(wt[w].pred, e) = "reject") =>
                       (wt'[w].fut = "pending" /\ w \in waiters'[wt[w].type])
          /\ (wt[w].pc /= "idle" /\ wt[w].fut = "result") =>
               (wt'[w].fut = "result" /\ wt'[w].res = wt[w].res)
          /\ wt[w].pc = "returned" => wt'[w] = wt[w]]_vars

\* A waiter on MessageEvent with predicate p let a rejected event pass,
\* returned the second event, and a later event did not change it.
C4_Witness ==
  \E w \in 1..MaxWaiters :
    /\ wt[w].pc = "returned"
    /\ wt[w].type = "MessageEvent"
    /\ wt[w].pred = "is_one"
    /\ wt[w].reg = 0
    /\ wt[w].res = 2
    /\ events[1].type = "MessageCreateEvent"
    /\ events[2].type = "MessageCreateEvent"

\* C5: a wait_for whose deadline passed without a matching event raises the
\* timeout error, and by then its waiter entry is removed, the map entry of
\* a last waiter is deleted and the waiter_group_count of the consumers
\* able to produce T is back to the number of their types still waited for.
C5_TimeoutRaisesAndCleansUp ==
  \A w \in 1..MaxWaiters :
    (wt[w].fut = "cancelled" /\ wt[w].pc /= "expired") =>
       /\ wt[w].pc = "timeout_error"
       /\ \A t \in DOMAIN waiters : w \notin waiters[t] /\ waiters[t] /= {}
       /\ \A c \in ConsumerNames :
            waiter_group_count[c] =
              Cardinality({t \in DOMAIN waiters : CanProduce(c, t)})

(***************************************************************************)
(* Properties of the gateway connection manager.                           *)
(***************************************************************************)
EventsOfType(type) == {i \in 1..Len(events) : events[i].type = type}

\* C6: when the server's first frame is HELLO and the authenticated
\* acknowledgement arrives in time, start() returns normally (it is woken
\* only with the connection event set and never raises), and it returns only
\* after, in this order, HELLO was received, AUTHENTICATE was sent and the
\* acknowledgement was handled; at the moment start() returns exactly one
\* ConnectionEvent has been dispatched.
C6_StartReturnsAfterHandshake ==
  /\ [](spc = "waking" => gw.connection_event = "set")
  /\ [](spc /= "raised")
  /\ [](spc = "returned" => gw.authenticated_event)
  /\ [](gw.authenticated_event => \E a \in Attempts : tr[a].authed /\ tr[a].auth_sent)
  /\ [](\A a \in Attempts : tr[a].auth_sent => tr[a].hello)
  /\ [][spc' = "returned" /\ spc /= "returned" =>
          Cardinality({i \in 1..Len(events') : events'[i].type = "ConnectionEvent"}) = 1]_vars

C6_Witness ==
  /\ spc = "returned"
  /\ tr[1].hello /\ tr[1].auth_sent /\ tr[1].authed
  /\ Cardinality(EventsOfType("ConnectionEvent")) = 1

\* A step of the supervised loop in which an attempt fails with an error
\* that is no cancellation.
FailureStep ==
  \/ \E outcome \in {"conn_err", "other"} : connect_transport(outcome)
  \/ \E frame \in {"OTHER_OP", "CLOSE", "CLOSED"} : poll_hello_event(frame)
  \/ connect_auth_timeout
  \/ /\ ka.pc = "race"
     /\ HbDone(ka.lifetime_tasks) /\ PlDone(ka.lifetime_tasks)
     /\ \E which \in {"heartbeat", "poll"} : first_completed_done(which)
  \/ /\ ka.raceexc /= "cancelled"
     /\ first_completed_cancelled

\* C7: no connection-level failure ends the supervised loop. After a
\* connect error, a close frame, a protocol violation, an authentication
\* timeout or an error of a lifetime task the loop is in its cleanup or in
\* its next attempt, a cleanup that was not started by a cancellation leads
\* to the next attempt unless a cancellation arrives, and the loop has ended
\* only if close() requested its cancellation.
C7_FailuresAreRetried ==
  /\ [](ka.pc \in {"done", "cancelled"} => hist.cancel_requested)
  /\ [][FailureStep => ka'.pc \in {"closing_ws", "backoff_sleep", "ws_connect"}]_vars
  /\ [][ka.pc = "closing_ws" /\ ka.exc /= "cancelled" /\ ka'.pc /= "closing_ws" =>
          \/ ka'.pc \in {"backoff_sleep", "ws_connect"}
          \/ ka.cancel /\ ka'.pc = "cancelled"]_vars
  /\ [][ka.pc = "backoff_sleep" /\ ka'.pc /= "backoff_sleep" =>
          \/ ka'.pc = "ws_connect" /\ attempts' = attempts + 1
          \/ ka.cancel /\ ka'.pc = "cancelled"]_vars

C7_Witness ==
  /\ tr[1].code = 1002
  /\ tr[2].st = "open"
  /\ ~hist.cancel_requested

\* C8: once close() has requested the cancellation of the supervised loop,
\* the loop starts no new connection attempt and opens no new transport.
C8_CancellationNeverRetried ==
  [][hist.cancel_requested =>
       /\ attempts' = attempts
       /\ \A a \in Attempts : tr'[a].st = "open" => tr[a].st = "open"]_vars

\* C9: when close() has returned, the supervised loop has ended, no
\* heartbeat and no poll task of the handler is left running, and is_alive
\* is false.
C9_CloseStopsLoopAndTasks ==
  cpc = "returned" =>
    /\ ~KRunning
    /\ \A a \in Attempts : hb[a] \in {"none", "returned", "failed", "cancelled"}
    /\ \A a \in Attempts : pl[a].pc \in {"none", "failed_conn", "failed_other", "cancelled"}
    /\ ~is_alive

\* C10: a heartbeat task sends no PING while its previous PING is
\* unacknowledged: a task that has sent a PING sends the next one only after
\* a PONG was received in between.
C10_NoPingWhileUnacknowledged ==
  [][\A a \in Attempts : hb'[a] = "sending" /\ hb[a] /= "sending" => ~hist.pinged[a]]_vars

\* The rule of the tick alone: with an acknowledgement timestamp that is not
\* newer than the send timestamp, the task ends and sends nothing.
TickRule ==
  [][\A a \in Attempts :
       hb[a] \in {"jitter", "sleep"} /\ hb'[a] \notin {hb[a], "cancelled"}
       /\ FloatLeq(gw.last_heartbeat_ack, gw.last_heartbeat)
       => hb'[a] = "returned" /\ hist' = hist /\ tr' = tr]_vars

TickRule_Witness ==
  \E a \in Attempts : hb[a] = "returned" /\ hist.pings_sent > 0

\* The heartbeat task of the running connection has sent a PING that no
\* PONG has answered, and close() was not called.
PingUnacknowledged(a) ==
  /\ attempts = a
  /\ ka.pc = "race"
  /\ ka.lifetime_tasks = a
  /\ hist.pinged[a]
  /\ ~hist.cancel_requested

\* C11: if a PING stays unacknowledged and close() is not called, a new
\* connection attempt is eventually started; and when the attempt that
\* follows a lifetime-task race starts, the heartbeat task and the poll task
\* of the race have ended and its transport is closed.
C11_UnacknowledgedPingReconnects ==
  /\ \A a \in 1..(MaxAttempts - 1) :
       [](PingUnacknowledged(a) =>
            <>(attempts > a \/ hist.cancel_requested \/ ~hist.pinged[a]))
  /\ [][attempts' > attempts /\ attempts > 0 /\ ka.lifetime_tasks = attempts =>
          HbDone(attempts) /\ PlDone(attempts) /\ tr[attempts].st = "closed"]_vars

C11_Witness ==
  /\ attempts = 2
  /\ hist.pinged[1]
  /\ hb[1] = "returned"
  /\ pl[1].pc = "cancelled"
  /\ tr[1].st = "closed"
  /\ ~hist.cancel_requested

\* The first frame read on the new transport is not HELLO.
ProtocolViolation == poll_hello_event("OTHER_OP")

\* C12 as stated: after a first frame that is not HELLO the socket is closed
\* with code 1002, start() does not raise, and the loop is in its backoff
\* sleep before the retry.
C12_ViolationRetriedAfterBackoff ==
  [][ProtocolViolation =>
       /\ tr'[gw.gateway_ws].st = "closed"
       /\ tr'[gw.gateway_ws].code = 1002
       /\ spc' = spc
       /\ ka'.pc = "backoff_sleep"]_vars

\* C12, amended: after a first frame that is not HELLO the attempt fails,
\* the socket is closed with code 1002, nothing is raised out of start(),
\* and the loop retries: through the backoff sleep, which takes the next
\* backoff value, or, when the failed attempt began longer ago than the
\* backoff window, at once.
C12_ViolationRetried ==
  [][ProtocolViolation =>
       /\ tr'[gw.gateway_ws].st = "closed"
       /\ tr'[gw.gateway_ws].code = 1002
       /\ gw'.gateway_ws = 0
       /\ spc' = spc
       /\ \/ ka'.pc = "backoff_sleep" /\ backoff' = BackoffNext(backoff)
                                       /\ attempts' = attempts
          \/ ka'.pc = "ws_connect" /\ backoff' = backoff
                                    /\ attempts' = attempts + 1]_vars

C12_Witness ==
  /\ tr[1].code = 1002
  /\ attempts = 2
  /\ ka.pc = "ws_connect"
  /\ backoff = 0

\* C13: when the first frame of the very first attempt is not HELLO,
\* start() raises: no later attempt is started with start() not having
\* raised.
C13_FirstAttemptViolationSurfaces ==
  tr[1].code = 1002 /\ attempts > 1 => spc = "raised"

\* C14: a second start() without a completed close() in between, made while
\* the first start() is waiting or after it has returned, raises; it spawns
\* no second supervised loop and leaves the handler and its loop as they are.
C14_SecondStartRaises ==
  [][second.start = "idle" /\ second'.start /= "idle" /\ cpc /= "returned" =>
       /\ second'.start = "raised"
       /\ UNCHANGED <<gw, ka, hb, pl, tr, attempts, spc>>]_vars

C14_Witness ==
  /\ second.start = "raised"
  /\ spc = "waiting"
  /\ ka.pc = "auth_wait"

\* C15: close() on a handler that was never started raises and changes
\* nothing: no task is cancelled, no event is dispatched, is_alive stays
\* false.
C15_CloseBeforeStartRaises ==
  [][cpc = "idle" /\ cpc' /= "idle" /\ spc = "idle" =>
       /\ cpc' = "raised"
       /\ ~is_alive'
       /\ UNCHANGED <<emvars, gw, ka, hb, pl, tr, backoff, attempts, consumptions,
                      spc, hist, second>>]_vars

C15_Witness ==
  /\ cpc = "raised"
  /\ spc = "idle"
  /\ ~is_alive
  /\ events = <<>>

\* C16: a close() called after a first close() has returned on a started
\* handler resolves without error and dispatches no event.
C16_SecondCloseResolves ==
  [][second.close = "idle" /\ second'.close /= "idle" /\ cpc = "returned" =>
       /\ second'.close = "returned"
       /\ events' = events]_vars

\* C17: a close() called while another close() is in flight requests no
\* cancellation of its own, raises nothing, and has returned only when the
\* supervised loop task has ended.
C17_ConcurrentCloseAwaits ==
  /\ [][second.close = "idle" /\ second'.close /= "idle" /\ cpc = "awaiting" =>
          second'.close = "awaiting" /\ ka' = ka /\ hist' = hist]_vars
  /\ [](second.close = "returned" => ~KRunning)
  /\ [](second.close /= "cancelled_error")

\* C18: when close() has returned is_alive is false, and a start() called
\* then is accepted and runs a new supervised loop.
C18_StartAfterClose ==
  /\ [](cpc = "returned" => ~is_alive)
  /\ [][second.start = "idle" /\ second'.start /= "idle" /\ cpc = "returned" =>
          second'.start = "waiting" /\ ka'.pc = "created"]_vars
\* The event types a consumer can produce: those whose bit is contained in
\* the consumer's bitmask.
ProducedKeys(c, map) == {t \in DOMAIN map : CanProduce(c, t)}

HasListener(c) ==
  \E t \in ProducedKeys(c, listeners) : listeners[t] /= <<>>

HasPendingWaiter(c) ==
  \E t \in ProducedKeys(c, waiters) : \E w \in waiters[t] : wt[w].fut = "pending"

HasRegisteredWaiter(c) ==
  \E t \in ProducedKeys(c, waiters) : waiters[t] /= {}

GroupCountsMatch(c) ==
  /\ listener_group_count[c] = Cardinality(ProducedKeys(c, listeners))
  /\ waiter_group_count[c] = Cardinality(ProducedKeys(c, waiters))
  /\ listener_group_count[c] >= 0
  /\ waiter_group_count[c] >= 0

UnknownFrame(a) == poll_events(a, "TYPING")

\* receive_json of the poll task of attempt a can be entered: the handler
\* has a transport and no other task is receiving from it.
CanReceive(a) ==
  /\ gw.gateway_ws /= 0
  /\ \A b \in Attempts : b /= a => ~(pl[b].pc = "recv" /\ pl[b].ws = gw.gateway_ws)

\* C20: consume_raw_event with an event name that, lower-cased, has no
\* consumer makes no _handle_consumption task, dispatches no event, invokes
\* no callback, leaves listeners, waiters and the group counts as they are
\* and raises nothing: the poll task goes on to its next receive_json.
C20_UnknownEventDropped ==
  [][\A a \in Attempts :
       UnknownFrame(a) =>
         /\ UNCHANGED emvars
         /\ consumptions' = consumptions
         /\ UNCHANGED <<gw, tr, ka, hb>>
         /\ pl'[a].pc \in {"recv", "failed_other"}
         /\ CanReceive(a) => pl'[a].pc = "recv" /\ pl'[a].ws = gw.gateway_ws]_vars

\* An unknown frame was received after the handshake; the poll task is
\* waiting for the next frame and no consumption task was made.
C20_Witness ==
  /\ hist.unknown = 1
  /\ spc = "returned"
  /\ consumptions = 0
  /\ pl[1].pc = "recv"
  /\ tr[1].st = "open"

Min(a, b) == IF a <= b THEN a ELSE b

\* The k-th draw (k = 1, 2, ...) of ExponentialBackoff(2, 60).
DefaultDraws(k) == IF k <= 6 THEN <<1, 2, 4, 8, 16, 32>>[k] ELSE 60

\* C21: with initial increment 0, the k-th draw (k = 0, 1, ...) after
\* construction or reset() is min(base^k, maximum); for base 2 and maximum
\* 60 the draws are 1, 2, 4, 8, 16, 32, 60, 60, ...; no draw exceeds the
\* maximum, and a draw that returns the maximum leaves the increment as it
\* is.
C21_BackoffSequence ==
  /\ [](eb.draws > 0 =>
          /\ eb.value = Min(Power(eb.base, eb.draws - 1), eb.maximum)
          /\ eb.value <= eb.maximum
          /\ (eb.base = 2 /\ eb.maximum = 60 => eb.value = DefaultDraws(eb.draws)))
  /\ [][ExponentialBackoff_next =>
          /\ eb'.increment >= eb.increment
          /\ (eb'.value = eb.maximum => eb'.increment = eb.increment)]_vars

\* The seventh draw of ExponentialBackoff(2, 60): the cap.
C21_Witness ==
  /\ eb.base = 2 /\ eb.maximum = 60
  /\ eb.draws = 7 /\ eb.value = 60 /\ eb.increment = 6

IsPowerOfTwo(n) == \E k \in 0..(MaxClasses + 1) : n = Pow2(k)

\* C22: every event class has a power-of-two bit taken from a counter that
\* only grows, Event has bit 1, distinct classes have distinct bits, and
\* the bit of a class never changes once it is assigned, also not when
\* attrs re-creates the class.
C22_BitsUniqueAndStable ==
  /\ [](/\ event_classes["Event"].bitmask = 1
        /\ \A t \in DOMAIN event_classes : IsPowerOfTwo(event_classes[t].bitmask)
        /\ \A t1, t2 \in DOMAIN event_classes :
             t1 /= t2 => event_classes[t1].bitmask /= event_classes[t2].bitmask)
  /\ [][/\ id_counter' >= id_counter
        /\ \A t \in DOMAIN event_classes :
             /\ t \in DOMAIN event_classes'
             /\ event_classes'[t].bitmask = event_classes[t].bitmask
        /\ \A t \in DOMAIN event_classes' \ DOMAIN event_classes :
             event_classes'[t].bitmask = Pow2(id_counter) /\ id_counter' = id_counter + 1]_vars

\* Two classes were created and attrs has re-created the first of them
\* after the second one got its bit.
C22_Witness ==
  /\ {"ExceptionEvent", "HelloEvent"} \subseteq DOMAIN event_classes
  /\ event_classes["ExceptionEvent"].attrs
  /\ event_classes["ExceptionEvent"].bitmask = 2
  /\ event_classes["HelloEvent"].bitmask = 4
  /\ id_counter = 3

\* The heartbeat and the poll task of attempt a do not exist or have ended.
TasksEnded(a) ==
  /\ hb[a] \in {"none", "returned", "failed", "cancelled"}
  /\ pl[a].pc \in {"none", "failed_conn", "failed_other", "cancelled"}

\* C23: when a cycle of the supervised loop has ended, the heartbeat and
\* the poll task spawned by its attempt have ended, so that at most one
\* heartbeat task and at most one poll task exist at any time.
C23_TasksEndWithTheirCycle ==
  /\ \A a \in Attempts : a < attempts => TasksEnded(a)
  /\ \A a \in Attempts :
       a = attempts /\ ka.pc \in {"backoff_sleep", "done"} => TasksEnded(a)
  /\ Cardinality({a \in Attempts : ~TasksEnded(a)}) <= 1

\* C24: on every attempt the connection event is set and the
\* ConnectionEvent is dispatched only after the server has acknowledged the
\* authentication on the transport of that attempt.
C24_ConnectedOnlyAfterAcknowledgement ==
  [][gw'.connection_event = "set" /\ gw.connection_event /= "set" =>
       tr[gw.gateway_ws].authed]_vars

\* The transports that are open.
LiveTransports == {a \in Attempts : tr[a].st = "open"}

\* C25: the handler has at most one open transport, the one its handle
\* names; a transport is opened only while the handle is empty and every
\* earlier transport is closed.
C25_AtMostOneLiveTransport ==
  /\ [](/\ Cardinality(LiveTransports) <= 1
        /\ \A a \in LiveTransports : gw.gateway_ws = a)
  /\ [][\A a \in Attempts :
          tr'[a].st = "open" /\ tr[a].st /= "open" =>
            /\ gw.gateway_ws = 0
            /\ LiveTransports = {}
            /\ \A b \in Attempts : b < a => tr[b].st \in {"none", "closed"}]_vars

\* The second attempt has opened its transport after the first transport,
\* which had completed the handshake, was closed by the finally clause.
C25_Witness ==
  /\ attempts = 2
  /\ tr[1].st = "closed" /\ tr[1].code = 1000 /\ tr[1].hello
  /\ tr[2].st = "open"
  /\ gw.gateway_ws = 2

\* The supervised loop begins a backoff sleep.
BackoffSleepBegins == ka'.pc = "backoff_sleep" /\ ka.pc /= "backoff_sleep"

\* The supervised loop starts an attempt without having slept before it.
AttemptWithoutSleep == attempts' = attempts + 1 /\ ka.pc /= "backoff_sleep"

\* C26: the loop sleeps before an attempt exactly when less than the
\* backoff window has elapsed since the previous attempt was started, and a
\* sleep takes the next backoff draw; the first attempt is made without a
\* sleep and without a draw.
C26_BackoffOnlyInsideWindow ==
  /\ [][/\ BackoffSleepBegins =>
             /\ ka'.elapsed = "less"
             /\ attempts > 0
             /\ backoff' = BackoffNext(backoff) \/ backoff' = BackoffNext(BackoffReset)
        /\ AttemptWithoutSleep =>
             /\ ka'.elapsed \in {"inf", "not_less"}
             /\ backoff' \in {backoff, BackoffReset}
        /\ attempts = 0 /\ attempts' = 1 =>
             /\ ka.pc = "created"
             /\ ka'.elapsed = "inf"
             /\ backoff' = 0]_vars
  /\ [](attempts = 0 => ka.pc /= "backoff_sleep" /\ backoff = 0)

\* The loop sleeps before the second attempt, having taken the first draw.
C26_Witness ==
  /\ ka.pc = "backoff_sleep"
  /\ ka.elapsed = "less"
  /\ attempts = 1
  /\ backoff = 1

\* The race of the lifetime tasks is over: first_completed has returned or
\* raised in the keep-alive task.
RaceEnds == ka.pc = "race_cancel" /\ ka'.pc /= "race_cancel"

\* The backoff after this step is the reset one: the initial increment, or
\* the increment after the first draw when the loop went on to sleep.
ResetSeen ==
  backoff' = IF ka'.pc = "backoff_sleep" THEN BackoffNext(BackoffReset) ELSE BackoffReset

\* C27: when the race of the lifetime tasks of a connection ends for a
\* reason other than a cancellation (heartbeat not acknowledged, server
\* close frame, read error), the backoff is reset, so that the next delay
\* is the initial one.
C27_EndedConnectionResetsBackoff ==
  [][RaceEnds /\ ka.raceexc /= "cancelled" => ResetSeen]_vars

C29_DisconnectPairsWithConnection ==
  Cardinality(EventsOfType("DisconnectEvent")) <= Cardinality(EventsOfType("ConnectionEvent"))

\* C30: only the first send_close on a transport sends a close frame and
\* releases the resources; every later call returns at once and changes
\* nothing, so that the only close frame carries the code of the first
\* call; the resources are released also when the close frame timed out.
C30_CloseIsIdempotent ==
  /\ [](/\ Len(sock.frames) <= 1
        /\ sock.released <= 1
        /\ \A i \in 1..Len(sock.frames) : sock.frames[i] = sock.callers[1].code
        /\ sock.callers[1].pc = "returned" => sock.released = 1)
  /\ [][\A c \in CloseCallers :
          c > 1 /\ sock.callers[c].pc = "idle" /\ sock'.callers[c].pc /= "idle" =>
            /\ sock'.callers[c].pc = "returned"
            /\ sock'.frames = sock.frames
            /\ sock'.released = sock.released
            /\ sock'.closed = sock.closed]_vars

\* The transport was closed with 1002 and the close frame timed out; a
\* later send_close(code=1000) has returned; the resources were released
\* once and no frame with code 1000 was sent.
C30_Witness ==
  /\ sock.callers[1] = [pc |-> "returned", code |-> 1002]
  /\ sock.callers[2] = [pc |-> "returned", code |-> 1000]
  /\ sock.frames = <<>>
  /\ sock.released = 1

\* Every consumer's waiter_group_count is the number of keys of the waiter
\* map that it can produce, in the state after the step.
WaiterCountsMatchNext ==
  \A c \in ConsumerNames :
    waiter_group_count'[c] = Cardinality({t \in DOMAIN waiters' : CanProduce(c, t)})

\* C31: when the cleanup of a wait_for whose deadline has passed runs, also
\* after a dispatch has visited its waiter set in between, wait_for raises
\* the timeout error and nothing else, the waiter is in no waiter set
\* afterwards, and the waiter group counts equal the number of keys.
C31_TimeoutCleanupUnderDispatch ==
  [][\A w \in 1..MaxWaiters :
       wt[w].pc = "expired" /\ wt'[w].pc /= "expired" =>
         /\ wt'[w].pc = "timeout_error"
         /\ \A t \in DOMAIN waiters' : w \notin waiters'[t]
         /\ WaiterCountsMatchNext]_vars

\* The wait_for call w has ended: it returned an event, raised, or was
\* cancelled by its caller.
WaitForEnded(w) ==
  wt[w].pc \in {"returned", "raised", "timeout_error", "key_error", "cancelled_error"}

\* C32: once a wait_for call has ended, its waiter pair is in no waiter set
\* and keeps no waiter group count positive: the counts are the number of
\* keys that still hold a waiter of a call that has not ended.
C32_NoWaiterOutlivesItsCall ==
  /\ \A w \in 1..MaxWaiters :
       WaitForEnded(w) => \A t \in DOMAIN waiters : w \notin waiters[t]
  /\ \A c \in ConsumerNames :
       waiter_group_count[c] =
         Cardinality({t \in DOMAIN waiters :
                        CanProduce(c, t) /\ \E w \in waiters[t] : ~WaitForEnded(w)})

\* The listener map and the counts after subscribe(t, cb) followed by
\* unsubscribe(t, cb).
RoundTripListeners(t, cb) == unsubscribed(subscribed(listeners, t, cb), t, cb)

RoundTripCounts(t, cb) ==
  unsubscribed_counts(subscribed(listeners, t, cb),
                      subscribed_counts(listeners, listener_group_count, t), t, cb)

\* Number of times x occurs in seq.
Occurrences(seq, x) == Cardinality({i \in 1..Len(seq) : seq[i] = x})

\* The listener group counts change by count for the consumers that can
\* produce t and for nobody else.
CountsChangeBy(t, count) ==
  \A c \in ConsumerNames :
    listener_group_count'[c] =
      listener_group_count[c] + (IF CanProduce(c, t) THEN count ELSE 0)

\* Group counts change only with the first subscription for a type and with
\* the removal of its last listener.
CountsFollowKeys ==
  [][\A t \in ListenTypes :
       /\ (t \notin DOMAIN listeners /\ t \in DOMAIN listeners') => CountsChangeBy(t, 1)
       /\ (t \in DOMAIN listeners /\ t \notin DOMAIN listeners') => CountsChangeBy(t, -1)
       /\ DOMAIN listeners' = DOMAIN listeners =>
            listener_group_count' = listener_group_count]_vars

HandlerEvents(evs) == {i \in 1..Len(evs) : evs[i].by = "gateway"}

\* A listener or a waiter group is registered for a type that consumer c
\* can produce.
HasAudience(c) ==
  \E t \in DOMAIN listeners \cup DOMAIN waiters : CanProduce(c, t)

\* C34: a consumption task that runs while its consumer is disabled invokes
\* no handler and dispatches nothing; one that runs while its consumer is
\* enabled invokes the handler exactly once (one event of the handler is
\* dispatched); and no handler runs without a consumption task.
C34_HandlerRunsIffEnabled ==
  [][/\ consumptions' < consumptions =>
          IF HasAudience("message_create")
          THEN /\ Len(events') = Len(events) + 1
               /\ events'[Len(events')] = GatewayEvent("MessageCreateEvent")
               /\ SubSeq(events', 1, Len(events)) = events
          ELSE /\ events' = events
               /\ calls' = calls
               /\ waiters' = waiters
     /\ HandlerEvents(events') /= HandlerEvents(events) =>
          consumptions' < consumptions]_vars

\* Two raw events were consumed: the task of one ran while the consumer was
\* disabled and the task of the other while it was enabled.
C34_Witness ==
  /\ hist.raw = 2
  /\ consumptions = 0
  /\ Cardinality(HandlerEvents(events)) = 1

\* The pending waiters that a dispatch of event visits.
Visited(event) ==
  {w \in 1..MaxWaiters :
     /\ wt[w].fut = "pending"
     /\ \E cls \in SeqToSet(dispatches(event.type)) \cap DOMAIN waiters : w \in waiters[cls]}

\* The predicate of waiter w raises, rejects or accepts event.
Raises(w, event) == wt[w].pred = "raises_on_zero" /\ event.val = 0

Rejects(w, event) == wt[w].pred = "is_one" /\ event.val /= 1

RECURSIVE ListenersOf(_)
ListenersOf(clss) ==
  IF clss = <<>> THEN 0 ELSE Len(GetListeners(Head(clss))) + ListenersOf(Tail(clss))

\* C35: when the predicate of a pending waiter raises during a dispatch,
\* the waiter's future completes with the error and the waiter leaves the
\* waiter map as a satisfied one does; the other waiters the dispatch
\* visits are still evaluated (satisfied and removed, or kept when their
\* predicate rejects) and every matching listener still gets its
\* invocation; the wait_for of the waiter then raises the error.
C35_RaisingPredicateCompletesWaiter ==
  [][/\ Len(events') = Len(events) + 1 =>
          LET event == events'[Len(events')]
          IN /\ \A w \in Visited(event) :
                  /\ Raises(w, event) =>
                       /\ wt'[w].fut = "exception"
                       /\ \A t \in DOMAIN waiters' : w \notin waiters'[t]
                  /\ (~Raises(w, event) /\ ~Rejects(w, event)) =>
                       /\ wt'[w].fut = "result"
                       /\ \A t \in DOMAIN waiters' : w \notin waiters'[t]
                  /\ Rejects(w, event) =>
                       /\ wt'[w].fut = "pending"
                       /\ \E t \in DOMAIN waiters' : w \in waiters'[t]
             /\ Len(calls') = Len(calls) + ListenersOf(dispatches(event.type))
             /\ WaiterCountsMatchNext
     /\ \A w \in 1..MaxWaiters :
          (wt[w].fut = "exception" /\ wt'[w].pc /= wt[w].pc) => wt'[w].pc = "raised"]_vars

\* One dispatch visited a waiter whose predicate raised and a waiter
\* without predicate, with a listener subscribed: both waiters completed,
\* one with the error, the listener got its invocation and the first
\* wait_for has raised.
C35_Witness ==
  /\ wt[1].pc = "raised" /\ wt[1].fut = "exception"
  /\ wt[2].fut = "result" /\ wt[2].res = wt[1].res
  /\ \E c \in 1..Len(calls) : calls[c].ev = wt[1].res
  /\ waiters = <<>>

\* The invocations dispatch() started for event e.
InvocationsOf(cs, e) == {c \in 1..Len(cs) : cs[c].ev = e}

\* Every invocation made for event e has finished: gather() is complete.
Completed(cs, e) == \A c \in InvocationsOf(cs, e) : cs[c].st = "done"

\* C36: dispatch returns with every invocation it made not yet started; the
\* handle of an event is complete only when every invocation made for the
\* event has finished, and with it the invocations of the ExceptionEvent
\* that a raising listener caused; it is complete at once when no listener
\* matches; an invocation whose listener raised finishes like any other,
\* so the handle holds no listener's exception.
C36_HandleCompletesAfterListeners ==
  /\ [][Len(events') = Len(events) + 1 =>
          /\ \A c \in InvocationsOf(calls', Len(events')) : calls'[c].st = "created"
          /\ InvocationsOf(calls', Len(events')) = {} => Completed(calls', Len(events'))
          /\ \A c \in 1..Len(calls) :
               calls'[c].st = "done" => calls[c].st = "done"]_vars
  /\ [](\A e \in 1..Len(events) :
          Completed(calls, e) =>
            \A c \in InvocationsOf(calls, e) :
              /\ calls[c].st = "done"
              /\ calls[c].out \in {"ok", "raised"}
              /\ \A k \in ExceptionEventsOf(c) :
                   \A d \in InvocationsOf(calls, k) : calls[d].st = "done")
  /\ [][\A e \in 1..Len(events) :
          Completed(calls, e) => Completed(calls', e)]_vars

\* A listener raised, the ExceptionEvent went to a listener of its own, and
\* the handle of the first event is complete.
C36_Witness ==
  \E c \in 1..Len(calls) :
    /\ events[calls[c].ev].by = "user"
    /\ calls[c].out = "raised"
    /\ \E k \in ExceptionEventsOf(c) : InvocationsOf(calls, k) /= {}
    /\ Completed(calls, calls[c].ev)

\* The poll task took a frame from transport ws: a PONG, an AUTHENTICATED
\* frame, or a frame with an opcode that has no consumer.
PongReceived(ws) == tr'[ws].pings < tr[ws].pings

AuthenticatedReceived(ws) == tr'[ws].authed /\ ~tr[ws].authed

UnknownReceived == hist'.unknown > hist.unknown

\* The fields of the handler other than the two heartbeat timestamps.
NoTimestamps(g) ==
  [g EXCEPT !.last_heartbeat = NaN, !.last_heartbeat_ack = NaN]

StartInFlight == spc \in {"waiting", "waking"}

\* C38: while start() is in flight is_alive is false, a close() raises the
\* inactive-handler error and leaves the handler and the supervised loop as
\* they are (no cancellation is requested, the loop goes on); a
\* cancellation of the loop is requested, and is_alive is true, only after
\* start() has returned.
C38_NotClosableDuringStart ==
  /\ [](StartInFlight => ~is_alive)
  /\ [](is_alive => spc = "returned")
  /\ [][(StartInFlight /\ second'.close /= second.close) =>
          /\ second'.close = "raised"
          /\ gw' = gw /\ ka' = ka /\ hist' = hist
          /\ hb' = hb /\ pl' = pl /\ tr' = tr]_vars
  /\ [][(hist'.cancel_requested /\ ~hist.cancel_requested) => spc = "returned"]_vars

\* close() has raised while start() was waiting, and the loop has gone on
\* to its second attempt.
C38_Witness ==
  /\ spc = "waiting"
  /\ cpc = "idle"
  /\ second.close = "raised"
  /\ attempts = 2
  /\ KRunning
  /\ ~hist.cancel_requested

\* The first EventManager's view of its consumers: the counts and
\* is_enabled of each of them.
ConsumerState ==
  [c \in ConsumerNames |->
     [listener_group_count |-> listener_group_count[c],
      waiter_group_count |-> waiter_group_count[c],
      is_enabled |-> listener_group_count[c] > 0 \/ waiter_group_count[c] > 0]]

\* C39: subscribing, unsubscribing or waiting on one EventManager leaves
\* the counts and the enabled state of the consumers of every other
\* EventManager of the same class unchanged: a consumer of an instance
\* counts the listener and waiter groups of that instance only.
C39_ConsumersBelongToOneInstance ==
  /\ [][peer' /= peer => ConsumerState' = ConsumerState]_vars
  /\ [](\A c \in ConsumerNames :
          /\ listener_group_count[c] =
               Cardinality({t \in DOMAIN listeners : CanProduce(c, t)})
          /\ waiter_group_count[c] =
               Cardinality({t \in DOMAIN waiters : CanProduce(c, t)}))

\* The first frame of the transport of attempt a was taken and was HELLO.
HelloReceived(a) == tr'[a].hello /\ ~tr[a].hello

\* C40: for every attempt whose first frame is HELLO, with a listener
\* subscribed to HelloEvent, the frame is handed to the hello consumer (a
\* consumption task is made) or a HelloEvent is dispatched.
C40_HelloEventOnFirstFrame ==
  [][\A a \in Attempts :
       (HelloReceived(a) /\ "HelloEvent" \in DOMAIN listeners) =>
          \/ consumptions' = consumptions + 1
          \/ /\ Len(events') = Len(events) + 1
             /\ events'[Len(events')].type = "HelloEvent"]_vars

====
